---- MODULE Spec2Model ----
(***************************************************************************)
(* Model of the repository content resolution of the application service:  *)
(* search, AnalyzePath, SearchForDockerfile and AnalyzeAndDetectDevfile    *)
(* (src/controllers/application_controller.go, second part, package pkg),  *)
(* and of ApplicationReconciler.Reconcile and SetupWithManager (first part  *)
(* of the same file).                                                      *)
(*                                                                         *)
(* search walks the immediate sub-directories of the root.  The directory  *)
(* listings, the outcome of validating a manifest and the responses of the *)
(* parser, the classifier (alizer) and the catalog (devfile registry) are  *)
(* inputs of the environment: every step that reads one draws it from a    *)
(* small set.  os.ReadDir returns the entries sorted by file name; the     *)
(* names below are listed in that order and a listing is an increasing     *)
(* sub-sequence of them.                                                   *)
(***************************************************************************)
EXTENDS Naturals, Integers, Sequences, FiniteSets, TLC

VARIABLES
    pc,                            \* position in search
    cdqInfo,                       \* the request: GitURL.RepoURL, Revision
    srcContext,                    \* the context prefix passed to search
    rootIdx,                       \* entries of the root listing consumed
    context,                       \* context key of the sub-directory at hand
    lastName,                      \* rank of the last name read in its listing
    isDevfilePresent,
    isDockerfilePresent,
    devfileMapFromRepo,
    devfilesURLMapFromRepo,
    dockerfileContextMapFromRepo,
    componentPortsMapFromRepo,
    ret,                           \* what search returned
    seen,                          \* what the listing of the context held
    call,                          \* what AnalyzePath did for the context
    probe,                         \* the root handed to a scan made in one step
    application,                   \* the Application resource held by the API server
    rec,                           \* the Reconcile invocation at hand
    hist,                          \* what the Reconcile invocations did so far
    queue,                         \* the requests of the work queue of the controller
    components,                    \* the Components of the Application
    event                          \* the event the controller received in this step

vars == <<pc, cdqInfo, srcContext, rootIdx, context, lastName,
          isDevfilePresent, isDockerfilePresent, devfileMapFromRepo,
          devfilesURLMapFromRepo, dockerfileContextMapFromRepo,
          componentPortsMapFromRepo, ret, seen, call, probe,
          application, rec, hist, queue, components, event>>

(***************************************************************************)
(* Bounds.                                                                 *)
(***************************************************************************)
MaxRoot == 2

MaxFiles == 3

\* the failures of Finalize followed for one Application
MaxFinalizeFailures == 8

\* the calls of one run of the controller that fail
MaxFaults == 1

(***************************************************************************)
(* Naming conventions (spec section 6; the constants are declared outside  *)
(* the two source files).                                                  *)
(***************************************************************************)
Devfile == "devfile.yaml"

HiddenDevfile == ".devfile.yaml"

DevfileYml == "devfile.yml"

HiddenDirDevfileYml == ".devfile.yml"

HiddenDevfileDir == ".devfile"

DockerfileName == "Dockerfile"

ContainerfileName == "Containerfile"

DockerDir == "docker"

HiddenDockerDir == ".docker"

BuildDir == "build"

\* strings.ToLower on the file names that occur
ToLower(s) ==
    CASE s = "Dockerfile" -> "dockerfile"
      [] s = "Containerfile" -> "containerfile"
      [] s = "Devfile.yaml" -> "devfile.yaml"
      [] s = "README.md" -> "readme.md"
      [] OTHER -> s

\* path.Join of two elements
PathJoin(a, b) == IF a = "" THEN b ELSE IF b = "" THEN a ELSE a \o "/" \o b

(***************************************************************************)
(* Go maps: functions on a finite set of keys.                             *)
(***************************************************************************)
EmptyMap == <<>>

Put(m, k, v) == [x \in (DOMAIN m) \cup {k} |-> IF x = k THEN v ELSE m[x]]

Delete(m, k) == [x \in (DOMAIN m) \ {k} |-> m[x]]

Has(m, k) == k \in DOMAIN m

(***************************************************************************)
(* Errors.  "" is the nil error.                                           *)
(***************************************************************************)
NoError == ""

ReadDirError == "ReadDirError"

InvalidSourceURL == "InvalidSourceURL"

InvalidDevfile == "InvalidDevfile"

NoDevfileFound == "NoDevfileFound"

\* the message of alizer's "no match" error, compared in AnalyzeAndDetectDevfile
NoValidDevfileMsg == "No valid devfile found for project"

(***************************************************************************)
(* Byte slices.  The bytes of a manifest read from disk are identified by  *)
(* the path of the file, the bytes marshalled from a catalog sample by the *)
(* sample; a nil and an empty slice both have length 0.                    *)
(***************************************************************************)
NilBytes == [src |-> "nil", id |-> ""]

DiskBytes(p) == [src |-> "disk", id |-> p]

CatalogBytes(n) == [src |-> "catalog", id |-> n]

BytesLen(b) == IF b.src = "nil" THEN 0 ELSE 1

(***************************************************************************)
(* Source-Link Resolver (spec 4.1): fails on a malformed base URL only,    *)
(* otherwise a URL built from the repository, the revision and the path.   *)
(***************************************************************************)
MalformedURLs == {"not-a-url"}

UpdateGitLink(repo, revision, p) ==
    IF repo \in MalformedURLs
    THEN [link |-> "", err |-> InvalidSourceURL]
    ELSE [link |-> repo \o "/raw/" \o revision \o "/" \o p, err |-> NoError]

(***************************************************************************)
(* Descriptor Validator (spec 4.4).  f.v is what the parser and the ignore *)
(* policy make of the file: "valid", "ignore" or "invalid".                *)
(***************************************************************************)
ValidateDevfile(f, devfilePath) ==
    [shouldIgnoreDevfile |-> f.v = "ignore",
     devfileBytes |-> IF f.v = "invalid" THEN NilBytes ELSE DiskBytes(devfilePath),
     err |-> IF f.v = "invalid" THEN "parse error" ELSE NoError]

IsDevfileName(lowerCaseFileName) ==
    \/ lowerCaseFileName = Devfile
    \/ lowerCaseFileName = HiddenDevfile
    \/ lowerCaseFileName = DevfileYml
    \/ lowerCaseFileName = HiddenDirDevfileYml

(***************************************************************************)
(* The working state of search for one context: the four maps, the two     *)
(* flags and the error that ends the scan ("" while there is none).        *)
(***************************************************************************)
MkState(dm, um, km, pm, dev, dock, e) ==
    [devfile |-> dm, url |-> um, dockerfile |-> km, ports |-> pm,
     isDevfilePresent |-> dev, isDockerfilePresent |-> dock, err |-> e]

Fail(st, e) == [st EXCEPT !.err = e]

\* slip: the bytes of the manifest are recorded without its URL
DevfileFoundBytesOnly(st, info, ctx, rel, f) ==
    LET updatedLink == UpdateGitLink(info.RepoURL, info.Revision, PathJoin(ctx, rel))
        val == ValidateDevfile(f, PathJoin(ctx, rel))
    IN  IF updatedLink.err # NoError THEN Fail(st, updatedLink.err)
        ELSE IF val.err # NoError THEN Fail(st, InvalidDevfile)
        ELSE IF val.shouldIgnoreDevfile
             THEN [st EXCEPT !.isDevfilePresent = FALSE]
             ELSE [st EXCEPT !.devfile = Put(@, ctx, val.devfileBytes),
                             !.isDevfilePresent = TRUE]

\* lines 405-422 and 438-457: a manifest file f found at relative path rel
DevfileFound(st, info, ctx, rel, f) ==
    LET updatedLink == UpdateGitLink(info.RepoURL, info.Revision, PathJoin(ctx, rel))
        val == ValidateDevfile(f, PathJoin(ctx, rel))
    IN  IF updatedLink.err # NoError THEN Fail(st, updatedLink.err)
        ELSE IF val.err # NoError THEN Fail(st, InvalidDevfile)
        ELSE IF val.shouldIgnoreDevfile
             THEN [st EXCEPT !.isDevfilePresent = FALSE]
             ELSE [st EXCEPT !.devfile = Put(@, ctx, val.devfileBytes),
                             !.url = Put(@, ctx, updatedLink.link),
                             !.isDevfilePresent = TRUE]

\* lines 432-459: the loop over the listing of the .devfile directory
RECURSIVE HiddenLoop(_, _, _, _)
HiddenLoop(st, info, ctx, hiddenfiles) ==
    IF hiddenfiles = <<>> \/ st.err # NoError THEN st
    ELSE LET f == Head(hiddenfiles)
             nxt == IF IsDevfileName(ToLower(f.name))
                    THEN DevfileFound(st, info, ctx, PathJoin(HiddenDevfileDir, f.name), f)
                    ELSE st
         IN  HiddenLoop(nxt, info, ctx, Tail(hiddenfiles))

\* lines 483-489: the loop over the listing of docker, .docker or build
RECURSIVE DockerDirLoop(_, _, _, _)
DockerDirLoop(st, ctx, dirName, files) ==
    IF files = <<>> THEN st
    ELSE LET f == Head(files)
             lowerCaseFileName == ToLower(f.name)
             nxt == IF \/ lowerCaseFileName = ToLower(DockerfileName)
                       \/ lowerCaseFileName = ToLower(ContainerfileName)
                    THEN [st EXCEPT !.dockerfile = Put(@, ctx, PathJoin(dirName, f.name)),
                                    !.isDockerfilePresent = TRUE]
                    ELSE st
         IN  DockerDirLoop(nxt, ctx, dirName, Tail(files))

\* slip: every directory of the listing is searched for manifests
ScanEntryAnyDir(st, info, ctx, f) ==
    LET lowerCaseFileName == ToLower(f.name)
    IN  IF IsDevfileName(lowerCaseFileName)
        THEN DevfileFound(st, info, ctx, f.name, f)
        ELSE IF f.isDir /\ f.name \notin {DockerDir, HiddenDockerDir, BuildDir}
        THEN IF f.readErr THEN Fail(st, ReadDirError)
             ELSE HiddenLoop(st, info, ctx, f.sub)
        ELSE IF lowerCaseFileName = ToLower(DockerfileName)
        THEN [st EXCEPT !.dockerfile = Put(@, ctx, f.name),
                        !.isDockerfilePresent = TRUE]
        ELSE IF lowerCaseFileName = ToLower(ContainerfileName)
        THEN [st EXCEPT !.dockerfile = Put(@, ctx, ContainerfileName),
                        !.isDockerfilePresent = TRUE]
        ELSE IF f.isDir /\ (f.name = DockerDir \/ f.name = HiddenDockerDir \/ f.name = BuildDir)
        THEN IF f.readErr THEN Fail(st, ReadDirError)
             ELSE DockerDirLoop(st, ctx, f.name, f.sub)
        ELSE st

\* lines 399-491: the body of the loop over the listing of a context
ScanEntry(st, info, ctx, f) ==
    LET lowerCaseFileName == ToLower(f.name)
    IN  IF IsDevfileName(lowerCaseFileName)
        THEN DevfileFound(st, info, ctx, f.name, f)
        ELSE IF f.isDir /\ f.name = HiddenDevfileDir
        THEN IF f.readErr THEN Fail(st, ReadDirError)
             ELSE HiddenLoop(st, info, ctx, f.sub)
        ELSE IF lowerCaseFileName = ToLower(DockerfileName)
        THEN [st EXCEPT !.dockerfile = Put(@, ctx, f.name),
                        !.isDockerfilePresent = TRUE]
        ELSE IF lowerCaseFileName = ToLower(ContainerfileName)
        THEN [st EXCEPT !.dockerfile = Put(@, ctx, ContainerfileName),
                        !.isDockerfilePresent = TRUE]
        ELSE IF f.isDir /\ (f.name = DockerDir \/ f.name = HiddenDockerDir \/ f.name = BuildDir)
        THEN IF f.readErr THEN Fail(st, ReadDirError)
             ELSE DockerDirLoop(st, ctx, f.name, f.sub)
        ELSE st

\* slip: the build-file map is emptied instead of losing one key
UnsetDockerfileAll(st, ctx) ==
    IF st.isDevfilePresent /\ st.isDockerfilePresent
    THEN [st EXCEPT !.dockerfile = EmptyMap, !.isDockerfilePresent = FALSE]
    ELSE st

\* lines 495-498: a manifest wins over a bare build file
UnsetDockerfile(st, ctx) ==
    IF st.isDevfilePresent /\ st.isDockerfilePresent
    THEN [st EXCEPT !.dockerfile = Delete(@, ctx), !.isDockerfilePresent = FALSE]
    ELSE st

\* line 500: whether search hands the context to AnalyzePath
ShouldAnalyze(dev, dock) == (~dev /\ ~dock) \/ (dev /\ ~dock)

(***************************************************************************)
(* SearchForDockerfile, lines 606-633.  parsed is what the parser makes of *)
(* the bytes: an error, or the image components in order, each given by    *)
(* the Uri of its Dockerfile ("" when it has none).                        *)
(***************************************************************************)
NoImage == [found |-> FALSE, Uri |-> "", err |-> NoError]

RECURSIVE FirstDockerfile(_)
FirstDockerfile(devfileImageComponents) ==
    IF devfileImageComponents = <<>> THEN NoImage
    ELSE IF Head(devfileImageComponents) # ""
         THEN [found |-> TRUE, Uri |-> Head(devfileImageComponents), err |-> NoError]
         ELSE FirstDockerfile(Tail(devfileImageComponents))

SearchForDockerfile(devfileBytes, parsed) ==
    IF BytesLen(devfileBytes) = 0 THEN NoImage
    ELSE IF parsed.err = "parse" THEN [NoImage EXCEPT !.err = InvalidDevfile]
    ELSE IF parsed.err # NoError THEN [NoImage EXCEPT !.err = parsed.err]
    ELSE FirstDockerfile(parsed.images)

\* strings.HasPrefix(uri, "http") on the references that occur
HttpUris == {"http://example.com/Dockerfile", "httpd/Dockerfile"}

HasPrefixHttp(uri) == uri \in HttpUris

(***************************************************************************)
(* Go slices of ports: nil, empty or not.                                  *)
(***************************************************************************)
NilPorts == [isNil |-> TRUE, list |-> <<>>]

Ports(l) == [isNil |-> FALSE, list |-> l]

\* detectedPorts != nil && !reflect.DeepEqual(detectedPorts, []int{})
PortsSet(p) == ~p.isNil /\ p.list # <<>>

(***************************************************************************)
(* Catalog Resolver (spec 4.2): the repository of a sample of the catalog. *)
(***************************************************************************)
GetRepoFromRegistry(env, name) ==
    IF env.registryErr THEN [url |-> "", err |-> "CatalogLookupFailed"]
    ELSE [url |-> env.repoURL, err |-> NoError]

(***************************************************************************)
(* AnalyzeAndDetectDevfile, lines 659-719.  env holds the answers of the   *)
(* catalog, the classifier and the parser for the path of the context.     *)
(***************************************************************************)
Detected(b, e, n, p, err) ==
    [devfileBytes |-> b, endpoint |-> e, name |-> n, ports |-> p, err |-> err]

DetectFailed(err) == Detected(NilBytes, "", "", NilPorts, err)

\* slip: the ports are taken from the last component instead of the first
DetectTypeLastPorts(env, alizerComponents) ==
    LET detectedType == env.select
        sampleRepoURL == GetRepoFromRegistry(env, detectedType.name)
        detectedDevfileEndpoint == UpdateGitLink(sampleRepoURL.url, "", Devfile)
    IN  IF detectedType.err # NoError /\ detectedType.err # NoValidDevfileMsg
        THEN [done |-> TRUE, res |-> DetectFailed(detectedType.err)]
        ELSE IF detectedType.name # ""
        THEN IF sampleRepoURL.err # NoError
             THEN [done |-> TRUE, res |-> DetectFailed(sampleRepoURL.err)]
             ELSE IF detectedDevfileEndpoint.err # NoError
             THEN [done |-> TRUE, res |-> DetectFailed(detectedDevfileEndpoint.err)]
             ELSE IF env.fetchErr
             THEN [done |-> TRUE, res |-> DetectFailed("parse error")]
             ELSE IF env.marshalErr
             THEN [done |-> TRUE, res |-> DetectFailed("marshal error")]
             ELSE IF BytesLen(env.marshalled) > 0
             THEN [done |-> TRUE,
                   res |-> Detected(env.marshalled, detectedDevfileEndpoint.link,
                                    detectedType.name, alizerComponents[Len(alizerComponents)].ports, NoError)]
             ELSE [done |-> FALSE, res |-> DetectFailed(NoError)]
        ELSE [done |-> FALSE, res |-> DetectFailed(NoError)]

\* lines 683-715: one component-capable language
DetectType(env, alizerComponents) ==
    LET detectedType == env.select
        sampleRepoURL == GetRepoFromRegistry(env, detectedType.name)
        detectedDevfileEndpoint == UpdateGitLink(sampleRepoURL.url, "", Devfile)
    IN  IF detectedType.err # NoError /\ detectedType.err # NoValidDevfileMsg
        THEN [done |-> TRUE, res |-> DetectFailed(detectedType.err)]
        ELSE IF detectedType.name # ""
        THEN IF sampleRepoURL.err # NoError
             THEN [done |-> TRUE, res |-> DetectFailed(sampleRepoURL.err)]
             ELSE IF detectedDevfileEndpoint.err # NoError
             THEN [done |-> TRUE, res |-> DetectFailed(detectedDevfileEndpoint.err)]
             ELSE IF env.fetchErr
             THEN [done |-> TRUE, res |-> DetectFailed("parse error")]
             ELSE IF env.marshalErr
             THEN [done |-> TRUE, res |-> DetectFailed("marshal error")]
             ELSE IF BytesLen(env.marshalled) > 0
             THEN [done |-> TRUE,
                   res |-> Detected(env.marshalled, detectedDevfileEndpoint.link,
                                    detectedType.name, alizerComponents[1].ports, NoError)]
             ELSE [done |-> FALSE, res |-> DetectFailed(NoError)]
        ELSE [done |-> FALSE, res |-> DetectFailed(NoError)]

\* lines 676-719: the loop over the languages of the first component
RECURSIVE LanguageLoop(_, _, _)
LanguageLoop(env, alizerComponents, languages) ==
    IF languages = <<>> THEN DetectFailed(NoDevfileFound)
    ELSE IF Head(languages).CanBeComponent
         THEN LET r == DetectType(env, alizerComponents)
              IN  IF r.done THEN r.res
                  ELSE LanguageLoop(env, alizerComponents, Tail(languages))
         ELSE LanguageLoop(env, alizerComponents, Tail(languages))

AnalyzeAndDetectDevfile(env) ==
    IF env.typesErr THEN DetectFailed("registry error")
    ELSE IF env.detectErr THEN DetectFailed("alizer error")
    ELSE IF Len(env.components) = 0 THEN DetectFailed(NoDevfileFound)
    ELSE LanguageLoop(env, env.components, env.components[1].languages)

(***************************************************************************)
(* AnalyzePath, lines 523-601.  The result carries the maps, the error and *)
(* the number of calls of AnalyzeAndDetectDevfile made.                    *)
(***************************************************************************)
\* lines 524-539
AnalyzeManifest(st, ctx, env) ==
    IF ~st.isDevfilePresent THEN [st |-> st, detects |-> 0]
    ELSE LET devfileBytes == IF Has(st.devfile, ctx) THEN st.devfile[ctx] ELSE NilBytes
             dockerfileImage == SearchForDockerfile(devfileBytes, env.localParse)
         IN  IF dockerfileImage.err # NoError
             THEN [st |-> Fail(st, dockerfileImage.err), detects |-> 0]
             ELSE IF dockerfileImage.found
             THEN [st |-> [st EXCEPT
                             !.dockerfile = IF HasPrefixHttp(dockerfileImage.Uri)
                                            THEN Put(@, ctx, dockerfileImage.Uri)
                                            ELSE @,
                             !.isDockerfilePresent = TRUE],
                   detects |-> 0]
             ELSE [st |-> st, detects |-> 0]

\* slip: the port list is recorded without the test for an empty list
RecordMatchAnyPorts(st, ctx, env, d) ==
    LET st1 == IF ~st.isDevfilePresent
               THEN [st EXCEPT !.devfile = Put(@, ctx, d.devfileBytes),
                               !.url = Put(@, ctx, d.endpoint)]
               ELSE st
        sampleRepoURL == GetRepoFromRegistry(env, d.name)
        dockerfileImage == SearchForDockerfile(d.devfileBytes, env.sampleParse)
        dockerfileUri == IF dockerfileImage.found THEN dockerfileImage.Uri ELSE ""
        link == UpdateGitLink(sampleRepoURL.url, "", dockerfileUri)
    IN  IF sampleRepoURL.err # NoError THEN Fail(st1, sampleRepoURL.err)
        ELSE IF dockerfileImage.err # NoError THEN Fail(st1, dockerfileImage.err)
        ELSE IF link.err # NoError THEN Fail(st1, link.err)
        ELSE [st1 EXCEPT !.dockerfile = Put(@, ctx, link.link),
                         !.ports = Put(@, ctx, d.ports.list),
                         !.isDockerfilePresent = TRUE]

\* slip: of the manifest of the catalog only the URL is recorded
RecordMatchUrlOnly(st, ctx, env, d) ==
    LET st1 == IF ~st.isDevfilePresent
               THEN [st EXCEPT !.url = Put(@, ctx, d.endpoint)]
               ELSE st
        sampleRepoURL == GetRepoFromRegistry(env, d.name)
        dockerfileImage == SearchForDockerfile(d.devfileBytes, env.sampleParse)
        dockerfileUri == IF dockerfileImage.found THEN dockerfileImage.Uri ELSE ""
        link == UpdateGitLink(sampleRepoURL.url, "", dockerfileUri)
    IN  IF sampleRepoURL.err # NoError THEN Fail(st1, sampleRepoURL.err)
        ELSE IF dockerfileImage.err # NoError THEN Fail(st1, dockerfileImage.err)
        ELSE IF link.err # NoError THEN Fail(st1, link.err)
        ELSE [st1 EXCEPT !.dockerfile = Put(@, ctx, link.link),
                         !.ports = IF PortsSet(d.ports) THEN Put(@, ctx, d.ports.list) ELSE @,
                         !.isDockerfilePresent = TRUE]

\* slip: no build-file entry when the manifest of the catalog embeds no reference
RecordMatchOnlyWithRef(st, ctx, env, d) ==
    LET st1 == IF ~st.isDevfilePresent
               THEN [st EXCEPT !.devfile = Put(@, ctx, d.devfileBytes),
                               !.url = Put(@, ctx, d.endpoint)]
               ELSE st
        sampleRepoURL == GetRepoFromRegistry(env, d.name)
        dockerfileImage == SearchForDockerfile(d.devfileBytes, env.sampleParse)
        dockerfileUri == IF dockerfileImage.found THEN dockerfileImage.Uri ELSE ""
        link == UpdateGitLink(sampleRepoURL.url, "", dockerfileUri)
    IN  IF sampleRepoURL.err # NoError THEN Fail(st1, sampleRepoURL.err)
        ELSE IF dockerfileImage.err # NoError THEN Fail(st1, dockerfileImage.err)
        ELSE IF link.err # NoError THEN Fail(st1, link.err)
        ELSE [st1 EXCEPT !.dockerfile = IF dockerfileImage.found
                                        THEN Put(@, ctx, link.link) ELSE @,
                         !.ports = IF PortsSet(d.ports) THEN Put(@, ctx, d.ports.list) ELSE @,
                         !.isDockerfilePresent = TRUE]

\* lines 550-586: a catalog match d was found
RecordMatch(st, ctx, env, d) ==
    LET st1 == IF ~st.isDevfilePresent
               THEN [st EXCEPT !.devfile = Put(@, ctx, d.devfileBytes),
                               !.url = Put(@, ctx, d.endpoint)]
               ELSE st
        sampleRepoURL == GetRepoFromRegistry(env, d.name)
        dockerfileImage == SearchForDockerfile(d.devfileBytes, env.sampleParse)
        dockerfileUri == IF dockerfileImage.found THEN dockerfileImage.Uri ELSE ""
        link == UpdateGitLink(sampleRepoURL.url, "", dockerfileUri)
    IN  IF sampleRepoURL.err # NoError THEN Fail(st1, sampleRepoURL.err)
        ELSE IF dockerfileImage.err # NoError THEN Fail(st1, dockerfileImage.err)
        ELSE IF link.err # NoError THEN Fail(st1, link.err)
        ELSE [st1 EXCEPT !.dockerfile = Put(@, ctx, link.link),
                         !.ports = IF PortsSet(d.ports) THEN Put(@, ctx, d.ports.list) ELSE @,
                         !.isDockerfilePresent = TRUE]

\* slip: NoDevfileFound is returned like any other error of the detector
AnalyzeFallbackStrict(r, ctx, env) ==
    IF r.st.err # NoError \/ r.st.isDockerfilePresent THEN r
    ELSE LET d == AnalyzeAndDetectDevfile(env)
         IN  IF d.err # NoError
             THEN [st |-> Fail(r.st, d.err), detects |-> r.detects + 1]
             ELSE IF BytesLen(d.devfileBytes) > 0
             THEN [st |-> RecordMatch(r.st, ctx, env, d), detects |-> r.detects + 1]
             ELSE [st |-> r.st, detects |-> r.detects + 1]

\* lines 541-587
AnalyzeFallback(r, ctx, env) ==
    IF r.st.err # NoError \/ r.st.isDockerfilePresent THEN r
    ELSE LET d == AnalyzeAndDetectDevfile(env)
         IN  IF d.err # NoError /\ d.err # NoDevfileFound
             THEN [st |-> Fail(r.st, d.err), detects |-> r.detects + 1]
             ELSE IF BytesLen(d.devfileBytes) > 0
             THEN [st |-> RecordMatch(r.st, ctx, env, d), detects |-> r.detects + 1]
             ELSE [st |-> r.st, detects |-> r.detects + 1]

\* lines 589-599
AnalyzePorts(r, ctx, env) ==
    IF r.st.err # NoError \/ ~(~r.st.isDevfilePresent /\ r.st.isDockerfilePresent) THEN r
    ELSE LET d == AnalyzeAndDetectDevfile(env)
         IN  [st |-> IF d.err = NoError /\ PortsSet(d.ports)
                     THEN [r.st EXCEPT !.ports = Put(@, ctx, d.ports.list)]
                     ELSE r.st,
              detects |-> r.detects + 1]

AnalyzePath(st, ctx, env) ==
    AnalyzePorts(AnalyzeFallback(AnalyzeManifest(st, ctx, env), ctx, env), ctx, env)

(***************************************************************************)
(* The environment: directory entries and the answers of the services.     *)
(***************************************************************************)
File(n, v) == [name |-> n, isDir |-> FALSE, readErr |-> FALSE, sub |-> <<>>, v |-> v]

Dir(n, sub) == [name |-> n, isDir |-> TRUE, readErr |-> FALSE, sub |-> sub, v |-> "none"]

UnreadableDir(n) == [name |-> n, isDir |-> TRUE, readErr |-> TRUE, sub |-> <<>>, v |-> "none"]

Validations == {"valid", "ignore", "invalid"}

\* the names a listing is drawn from, in the order os.ReadDir returns them
NameOrder ==
    <<".devfile", "Dockerfile", "containerfile", "devfile.yaml", "docker", "src">>

HiddenListings ==
    {<<>>} \cup {<<File(Devfile, v)>> : v \in Validations}
           \cup {<<File("README.md", "none"), File(Devfile, "valid"), File(DevfileYml, "ignore")>>}

BuildListings == {<<File("README.md", "none")>>, <<File(DockerfileName, "none")>>}

\* the entries that can carry the name of rank i
EntriesAt(i) ==
    LET n == NameOrder[i]
    IN  CASE n = ".devfile" -> {UnreadableDir(n)} \cup {Dir(n, l) : l \in HiddenListings}
          [] n \in {"devfile.yaml"} -> {File(n, v) : v \in Validations}
          [] n \in {"Dockerfile", "containerfile"} -> {File(n, "none")}
          [] n \in {"docker"} -> {UnreadableDir(n)} \cup {Dir(n, l) : l \in BuildListings}
          [] OTHER -> {Dir(n, <<Dir("deep", <<File(Devfile, "valid")>>), File(Devfile, "valid")>>)}

\* the sub-directories of the root, by position in its listing
ContextName(i) == <<"a", "b", "c", "d">>[i]

RepoURLs == {"https://github.com/org/repo", "not-a-url"}

SrcContexts == {"apps"}

Component(langs, p) ==
    [languages |-> [i \in 1..Len(langs) |-> [CanBeComponent |-> langs[i]]], ports |-> p]

Parsed(images) == [err |-> NoError, images |-> images]

Unparsed(e) == [err |-> e, images |-> <<>>]

BaseEnv ==
    [localParse |-> Parsed(<<>>),
     typesErr |-> FALSE,
     detectErr |-> FALSE,
     components |-> <<Component(<<TRUE>>, Ports(<<8080, 9090>>))>>,
     select |-> [err |-> NoError, name |-> "nodejs-basic"],
     registryErr |-> FALSE,
     repoURL |-> "https://github.com/samples/nodejs-basic",
     fetchErr |-> FALSE,
     marshalErr |-> FALSE,
     marshalled |-> CatalogBytes("nodejs-basic"),
     sampleParse |-> Parsed(<<"Dockerfile">>)]

PortLists == {NilPorts, Ports(<<>>), Ports(<<8080, 9090>>)}

\* the answers of the catalog, the classifier and the parser to one detection
DetectEnvs ==
    {[BaseEnv EXCEPT !.components = <<Component(<<TRUE>>, p)>>, !.sampleParse = Parsed(i)] :
        p \in PortLists, i \in {<<>>, <<"Dockerfile">>}}
    \cup {[BaseEnv EXCEPT !.components = c] :
            c \in {<<>>, <<Component(<<>>, Ports(<<8080, 9090>>))>>,
                   <<Component(<<FALSE>>, Ports(<<8080, 9090>>))>>,
                   <<Component(<<FALSE, TRUE>>, Ports(<<8080, 9090>>))>>,
                   <<Component(<<TRUE>>, NilPorts), Component(<<TRUE>>, Ports(<<3000>>))>>}}
    \cup {[BaseEnv EXCEPT !.select = x] :
            x \in {[err |-> NoValidDevfileMsg, name |-> ""],
                   [err |-> "alizer failure", name |-> ""],
                   [err |-> NoError, name |-> ""]}}
    \cup {[BaseEnv EXCEPT !.typesErr = TRUE], [BaseEnv EXCEPT !.detectErr = TRUE],
          [BaseEnv EXCEPT !.registryErr = TRUE], [BaseEnv EXCEPT !.repoURL = "not-a-url"],
          [BaseEnv EXCEPT !.fetchErr = TRUE], [BaseEnv EXCEPT !.marshalErr = TRUE],
          [BaseEnv EXCEPT !.marshalled = NilBytes],
          [BaseEnv EXCEPT !.sampleParse = Unparsed("parse")]}

\* what the parser makes of the manifest found on disk
LocalParses ==
    {Parsed(<<>>), Parsed(<<"Dockerfile">>), Parsed(<<"", "http://example.com/Dockerfile">>),
     Unparsed("parse"), Unparsed("components")}

Envs == {[d EXCEPT !.localParse = l] : d \in DetectEnvs, l \in LocalParses}

(***************************************************************************)
(* What a listing held, told from the entries themselves.                  *)
(***************************************************************************)
ManifestNames == {Devfile, HiddenDevfile, DevfileYml, HiddenDirDevfileYml}

BuildFileNames == {"Dockerfile", "dockerfile", "Containerfile", "containerfile"}

BuildDirNames == {DockerDir, HiddenDockerDir, BuildDir}

\* the validations of the manifest files an entry of a context listing holds
ManifestsOf(e) ==
    IF ~e.isDir /\ e.name \in ManifestNames THEN {e.v}
    ELSE IF e.isDir /\ e.name = HiddenDevfileDir /\ ~e.readErr
         THEN {e.sub[i].v : i \in {j \in 1..Len(e.sub) : e.sub[j].name \in ManifestNames}}
         ELSE {}

\* whether an entry of a context listing holds a build file
HoldsBuildFile(e) ==
    \/ ~e.isDir /\ e.name \in BuildFileNames
    \/ e.isDir /\ e.name \in BuildDirNames /\ ~e.readErr
         /\ \E i \in 1..Len(e.sub) : e.sub[i].name \in BuildFileNames

\* whether an entry of a context listing is a directory other than .devfile
\* that holds a file with the name of a manifest
HoldsManifestElsewhere(e) ==
    /\ e.isDir /\ e.name # HiddenDevfileDir /\ ~e.readErr
    /\ \E i \in 1..Len(e.sub) : e.sub[i].name \in ManifestNames

NothingSeen ==
    [valid |-> FALSE, ignore |-> FALSE, invalid |-> FALSE, build |-> FALSE,
     elsewhere |-> FALSE]

See(s, e) ==
    [valid |-> s.valid \/ "valid" \in ManifestsOf(e),
     ignore |-> s.ignore \/ "ignore" \in ManifestsOf(e),
     invalid |-> s.invalid \/ "invalid" \in ManifestsOf(e),
     build |-> s.build \/ HoldsBuildFile(e),
     elsewhere |-> s.elsewhere \/ HoldsManifestElsewhere(e)]

NoCall ==
    [invoked |-> FALSE, detects |-> 0, outcome |-> "none", reported |-> NilPorts,
     declared |-> FALSE, repo |-> "", ref |-> ""]

\* whether the manifest on disk, as parsed, declares a build file
Declares(parsed) ==
    parsed.err = NoError /\ \E i \in 1..Len(parsed.images) : parsed.images[i] # ""

\* the build-file reference the manifest of the catalog sample embeds
EmbeddedRef(parsed) ==
    IF \E i \in 1..Len(parsed.images) : parsed.images[i] # ""
    THEN parsed.images[CHOOSE i \in 1..Len(parsed.images) :
                          /\ parsed.images[i] # ""
                          /\ \A j \in 1..(i - 1) : parsed.images[j] = ""]
    ELSE ""

\* the port list the classifier reports for the first component
ReportedPorts(env) ==
    IF env.typesErr \/ env.detectErr \/ Len(env.components) = 0 THEN NilPorts
    ELSE env.components[1].ports

Outcome(env) ==
    LET d == AnalyzeAndDetectDevfile(env)
    IN  IF d.err = NoError THEN "match"
        ELSE IF d.err = NoDevfileFound THEN NoDevfileFound ELSE "error"

(***************************************************************************)
(* The Application resource and ApplicationReconciler.Reconcile, lines     *)
(* 80-277.  The finalize counter is an annotation of the resource: absent, *)
(* a number, or a text that is not a number.  The conditions of the status *)
(* are read by nothing here: hist.did keeps which ones Reconcile has set.  *)
(***************************************************************************)
NoAnnotation == [kind |-> "absent", n |-> 0]

BadAnnotation == [kind |-> "garbage", n |-> 0]

Annotation(n) == [kind |-> "int", n |-> n]

\* getCounterAnnotation(finalizeCount, &application): 0 when the annotation
\* is absent, an error when it is not a number
getCounterAnnotation(obj) ==
    IF obj.finalizeCount.kind = "garbage" THEN [n |-> 0, err |-> "not a number"]
    ELSE [n |-> obj.finalizeCount.n, err |-> NoError]

\* setCounterAnnotation(finalizeCount, &application, count)
setCounterAnnotation(obj, count) == [obj EXCEPT !.finalizeCount = Annotation(count)]

\* req.NamespacedName: the one Application of the model
AppName == "app"

\* Spec.GitOpsRepository.URL when given, and the URL GenerateNewRepository returns
GivenRepo == "https://github.com/org/given"

GeneratedRepo == "https://github.com/redhat-appstudio-appdata/app-generated"

\* the devfile object: metadata name and description, the repository, and
\* the attributes and projects, one for every component of the Application
NoData == [name |-> "", description |-> "", gitOps |-> "", components |-> {}]

\* Status.Devfile: empty, the YAML text of a devfile, or a text that is none
NoDevfile == [kind |-> "empty", data |-> NoData]

NotADevfile == [kind |-> "garbage", data |-> NoData]

\* yaml.Marshal(devfileData), lines 199 and 262
Marshal(devfileData) == [kind |-> "devfile", data |-> devfileData]

\* cdqanalysis.ParseDevfileWithParserArgs, line 218
ParseDevfile(text) ==
    IF text.kind = "devfile" THEN [err |-> NoError, data |-> text.data]
    ELSE [err |-> "parse error", data |-> NoData]

\* devfile.ConvertApplicationToDevfile(application, gitOpsRepo, appModelRepo)
ConvertApplicationToDevfile(obj, gitOpsRepo) ==
    [name |-> obj.displayName, description |-> obj.description,
     gitOps |-> gitOpsRepo, components |-> {}]

\* r.getAndAddComponentApplicationsToModel: the components of the Application
\* are added to the attributes and projects of the devfile
getAndAddComponentApplicationsToModel(devSpec, owned) == devSpec \cup owned

NoObject == [exists |-> FALSE, deleting |-> FALSE, finalizer |-> FALSE,
             finalizeCount |-> NoAnnotation, gitOpsURL |-> "",
             displayName |-> "", description |-> "", devfile |-> NoDevfile]

Idle(result) == [pc |-> "idle", obj |-> NoObject, read |-> NoObject, result |-> result,
                 gitOpsRepo |-> "", devfileData |-> NoData, devWorkspacesSpec |-> {}]

At(p, obj) == [pc |-> p, obj |-> obj, read |-> obj, result |-> "none",
               gitOpsRepo |-> "", devfileData |-> NoData, devWorkspacesSpec |-> {}]

\* slip: the counter is compared with <= 5
FinalizeFailedOffByOne(obj) ==
    LET finalizeCounter == getCounterAnnotation(obj)
    IN  IF finalizeCounter.err = NoError /\ finalizeCounter.n <= 5
        THEN [retry |-> TRUE, obj |-> setCounterAnnotation(obj, finalizeCounter.n + 1)]
        ELSE [retry |-> FALSE, obj |-> obj]

\* lines 119-135: Finalize returned an error
FinalizeFailed(obj) ==
    LET finalizeCounter == getCounterAnnotation(obj)
    IN  IF finalizeCounter.err = NoError /\ finalizeCounter.n < 5
        THEN [retry |-> TRUE, obj |-> setCounterAnnotation(obj, finalizeCounter.n + 1)]
        ELSE [retry |-> FALSE, obj |-> obj]

\* controllerutil.RemoveFinalizer(&application, appFinalizerName)
RemoveFinalizerFrom(obj) == [obj EXCEPT !.finalizer = FALSE]

\* what the API server holds after an update with obj was accepted: a resource
\* under deletion is gone once it has no finalizer left
Updated(obj) == IF obj.deleting /\ ~obj.finalizer THEN NoObject ELSE obj

\* r.Update and r.Client.Status().Update are refused when the resource is gone
\* or was changed since it was read
Accepted(stored, read, ok) == ok /\ stored.exists /\ stored = read

\* the status update of SetCreateConditionAndUpdateCR and of
\* SetUpdateConditionAndUpdateCR stores the status of obj
StatusUpdate(stored, read, obj, ok) ==
    IF Accepted(stored, read, ok) THEN [stored EXCEPT !.devfile = obj.devfile] ELSE stored

\* slip: a live Application goes on to the reconcile loop without the finalizer
DeletionBranchNoReturn(obj) ==
    IF ~obj.deleting
    THEN "main"
    ELSE IF obj.finalizer THEN "finalize" ELSE "main"

\* lines 108-115: what Reconcile does next with the Application it read
DeletionBranch(obj) ==
    IF ~obj.deleting
    THEN IF ~obj.finalizer THEN "addFinalizer" ELSE "main"
    ELSE IF obj.finalizer THEN "finalize" ELSE "main"

\* lines 152-157 and 213: the creation path, with or without a repository to
\* generate, or the update path
DevfileBranch(obj) ==
    IF obj.devfile.kind = "empty"
    THEN IF obj.gitOpsURL = "" THEN "generate" ELSE "convert"
    ELSE "parse"

\* slip: the name of the devfile is compared with the description
updateRequiredMixedUp(obj, devfileData, devWorkspacesSpec) ==
    \/ devfileData.name # obj.description
    \/ devfileData.description # obj.description
    \/ devfileData.components # devWorkspacesSpec

\* lines 240-256: the devfile differs from the Application and its components
updateRequired(obj, devfileData, devWorkspacesSpec) ==
    \/ devfileData.name # obj.displayName
    \/ devfileData.description # obj.description
    \/ devfileData.components # devWorkspacesSpec

\* lines 244, 248, 254, 259: the devfile brought up to date
UpdatedDevfile(obj, devfileData, devWorkspacesSpec) ==
    [devfileData EXCEPT !.name = obj.displayName,
                        !.description = obj.description,
                        !.components = devWorkspacesSpec]

(***************************************************************************)
(* SetupWithManager, lines 280-322: which events of the watched resources  *)
(* put a request for the Application into the work queue.                  *)
(***************************************************************************)
EventKinds == {"create", "update", "delete", "generic"}

NoEvent == [type |-> "none", kind |-> "none"]

\* lines 289-305: WithEventFilter, the predicate of every watch of the
\* controller; it has no GenericFunc, and predicate.Funcs lets such events pass
EventFilter(kind) ==
    CASE kind = "create" -> TRUE
      [] kind = "update" -> TRUE
      [] kind = "delete" -> FALSE
      [] OTHER -> TRUE

\* lines 307-320: the predicates of the watch of the Components
ComponentPredicates(kind) ==
    CASE kind = "create" -> TRUE
      [] kind = "update" -> FALSE
      [] kind = "delete" -> TRUE
      [] OTHER -> FALSE

\* MapComponentToApplication(): the request for the Application of the Component
MapComponentToApplication == {AppName}

\* lines 284-321: the requests an event adds to the work queue
Requests(type, kind) ==
    IF type = "Application"
    THEN IF EventFilter(kind) THEN {AppName} ELSE {}
    ELSE IF EventFilter(kind) /\ ComponentPredicates(kind)
         THEN MapComponentToApplication ELSE {}

\* the names of the Components there may be
ComponentNames == {"frontend"}

\* what the history keeps of the Application that Reconcile read
Fetched(obj) == [exists |-> obj.exists, deleting |-> obj.deleting,
                 finalizer |-> obj.finalizer]

NoHistory == [finalizeFailures |-> 0, updateFailed |-> FALSE, faults |-> 0,
              fetched |-> Fetched(NoObject), did |-> {}]

(***************************************************************************)
(* search, lines 372-515.                                                  *)
(***************************************************************************)
NotReturned ==
    [returned |-> FALSE, isNil |-> TRUE, devfile |-> EmptyMap, url |-> EmptyMap,
     dockerfile |-> EmptyMap, ports |-> EmptyMap, err |-> NoError]

\* slip: the maps built so far are returned along with the error
ReturnErrorWithMaps(e) ==
    [returned |-> TRUE, isNil |-> FALSE, devfile |-> devfileMapFromRepo,
     url |-> devfilesURLMapFromRepo, dockerfile |-> dockerfileContextMapFromRepo,
     ports |-> componentPortsMapFromRepo, err |-> e]

\* return nil, nil, nil, nil, err
ReturnError(e) ==
    [returned |-> TRUE, isNil |-> TRUE, devfile |-> EmptyMap, url |-> EmptyMap,
     dockerfile |-> EmptyMap, ports |-> EmptyMap, err |-> e]

\* slip: an error is returned when nothing was found
ReturnMapsOrNotFound(dm, um, km, pm) ==
    IF dm = EmptyMap /\ um = EmptyMap /\ km = EmptyMap
    THEN ReturnError(NoDevfileFound)
    ELSE [returned |-> TRUE, isNil |-> FALSE, devfile |-> dm, url |-> um,
          dockerfile |-> km, ports |-> pm, err |-> NoError]

\* line 514
ReturnMaps(dm, um, km, pm) ==
    [returned |-> TRUE, isNil |-> FALSE, devfile |-> dm, url |-> um,
     dockerfile |-> km, ports |-> pm, err |-> NoError]

Current ==
    MkState(devfileMapFromRepo, devfilesURLMapFromRepo, dockerfileContextMapFromRepo,
            componentPortsMapFromRepo, isDevfilePresent, isDockerfilePresent, NoError)

Store(st) ==
    /\ devfileMapFromRepo' = st.devfile
    /\ devfilesURLMapFromRepo' = st.url
    /\ dockerfileContextMapFromRepo' = st.dockerfile
    /\ componentPortsMapFromRepo' = st.ports

Abort(e) ==
    /\ pc' = "done"
    /\ ret' = ReturnError(e)

Init ==
    /\ pc = "start"
    /\ cdqInfo \in {[RepoURL |-> u, Revision |-> "main"] : u \in RepoURLs}
    /\ srcContext \in SrcContexts
    /\ rootIdx = 0
    /\ context = ""
    /\ lastName = 0
    /\ isDevfilePresent = FALSE
    /\ isDockerfilePresent = FALSE
    /\ devfileMapFromRepo = EmptyMap
    /\ devfilesURLMapFromRepo = EmptyMap
    /\ dockerfileContextMapFromRepo = EmptyMap
    /\ componentPortsMapFromRepo = EmptyMap
    /\ ret = NotReturned
    /\ seen = NothingSeen
    /\ call = NoCall
    /\ probe = <<>>
    /\ application = NoObject
    /\ rec = Idle("none")
    /\ hist = NoHistory
    /\ queue = {}
    /\ components = {}
    /\ event = NoEvent

\* lines 384-387: the listing of the root
ReadRoot ==
    /\ pc = "start"
    /\ \E ok \in BOOLEAN :
          IF ok THEN pc' = "root" /\ ret' = ret ELSE Abort(ReadDirError)
    /\ UNCHANGED <<application, rec, hist, queue, components, event, probe, cdqInfo, srcContext, rootIdx, context, lastName,
                   isDevfilePresent, isDockerfilePresent, devfileMapFromRepo,
                   devfilesURLMapFromRepo, dockerfileContextMapFromRepo,
                   componentPortsMapFromRepo, seen, call>>

\* lines 390-398: the next sub-directory of the root becomes the context
EnterDir ==
    /\ pc = "root"
    /\ rootIdx < MaxRoot
    /\ rootIdx' = rootIdx + 1
    /\ context' = PathJoin(srcContext, ContextName(rootIdx + 1))
    /\ isDevfilePresent' = FALSE
    /\ isDockerfilePresent' = FALSE
    /\ lastName' = 0
    /\ seen' = NothingSeen
    /\ call' = NoCall
    /\ \E ok \in BOOLEAN :
          IF ok THEN pc' = "listing" /\ ret' = ret ELSE Abort(ReadDirError)
    /\ UNCHANGED <<application, rec, hist, queue, components, event, probe, cdqInfo, srcContext, devfileMapFromRepo, devfilesURLMapFromRepo,
                   dockerfileContextMapFromRepo, componentPortsMapFromRepo>>

\* lines 399-491: one entry of the listing of the context
ScanFile ==
    /\ pc = "listing"
    /\ \E i \in (lastName + 1)..Len(NameOrder) : \E f \in EntriesAt(i) :
          LET st == ScanEntry(Current, cdqInfo, context, f)
          IN  /\ lastName' = i
              /\ seen' = See(seen, f)
              /\ isDevfilePresent' = st.isDevfilePresent
              /\ isDockerfilePresent' = st.isDockerfilePresent
              /\ Store(st)
              /\ IF st.err # NoError THEN Abort(st.err) ELSE pc' = pc /\ ret' = ret
    /\ UNCHANGED <<application, rec, hist, queue, components, event, probe, cdqInfo, srcContext, rootIdx, context, call>>

\* lines 492-500: the listing is exhausted
EndListing ==
    /\ pc = "listing"
    /\ LET st == UnsetDockerfile(Current, context)
       IN  /\ isDevfilePresent' = st.isDevfilePresent
           /\ isDockerfilePresent' = st.isDockerfilePresent
           /\ Store(st)
           /\ pc' = IF ShouldAnalyze(st.isDevfilePresent, st.isDockerfilePresent)
                    THEN "analyze" ELSE "root"
    /\ UNCHANGED <<application, rec, hist, queue, components, event, probe, cdqInfo, srcContext, rootIdx, context, lastName, ret, seen, call>>

\* lines 501-504: the call of AnalyzePath
Analyze ==
    /\ pc = "analyze"
    /\ \E d \in DetectEnvs : \E l \in (IF isDevfilePresent THEN LocalParses ELSE {Parsed(<<>>)}) :
          LET env == [d EXCEPT !.localParse = l]
              r == AnalyzePath(Current, context, env)
          IN  /\ Store(r.st)
              /\ call' = [invoked |-> TRUE, detects |-> r.detects,
                          outcome |-> IF r.detects > 0 THEN Outcome(env) ELSE "none",
                          reported |-> IF r.detects > 0 THEN ReportedPorts(env) ELSE NilPorts,
                          declared |-> isDevfilePresent /\ Declares(l),
                          repo |-> IF r.detects > 0 /\ Outcome(env) = "match"
                                   THEN env.repoURL ELSE "",
                          ref |-> IF r.detects > 0 /\ Outcome(env) = "match"
                                  THEN EmbeddedRef(env.sampleParse) ELSE ""]
              /\ IF r.st.err # NoError THEN Abort(r.st.err) ELSE pc' = "root" /\ ret' = ret
    /\ UNCHANGED <<application, rec, hist, queue, components, event, probe, cdqInfo, srcContext, rootIdx, context, lastName,
                   isDevfilePresent, isDockerfilePresent, seen>>

\* lines 509-514: the root listing is exhausted
Return ==
    /\ pc = "root"
    /\ pc' = "done"
    /\ ret' = ReturnMaps(devfileMapFromRepo, devfilesURLMapFromRepo,
                         dockerfileContextMapFromRepo, componentPortsMapFromRepo)
    /\ UNCHANGED <<application, rec, hist, queue, components, event, probe, cdqInfo, srcContext, rootIdx, context, lastName,
                   isDevfilePresent, isDockerfilePresent, devfileMapFromRepo,
                   devfilesURLMapFromRepo, dockerfileContextMapFromRepo,
                   componentPortsMapFromRepo, seen, call>>

Next ==
    \/ ReadRoot
    \/ EnterDir
    \/ ScanFile
    \/ EndListing
    \/ Analyze
    \/ Return

Spec == Init /\ [][Next]_vars

TypeOK ==
    /\ pc \in {"start", "root", "listing", "analyze", "done", "probe", "again", "none"}
    /\ rootIdx \in 0..MaxRoot
    /\ ret.returned = (pc \in {"done", "again"})

(***************************************************************************)
(* search as a function of the root: each sub-directory d of the root is   *)
(* given by its listing d.files (d.readErr when it cannot be read) and the *)
(* answers d.env of the services for its path.                             *)
(***************************************************************************)
RECURSIVE ListingLoop(_, _, _, _)
ListingLoop(st, info, ctx, files) ==
    IF files = <<>> \/ st.err # NoError THEN st
    ELSE ListingLoop(ScanEntry(st, info, ctx, Head(files)), info, ctx, Tail(files))

\* lines 390-505: the body of the loop over the root for one sub-directory
SearchContext(st, info, ctx, d) ==
    IF d.readErr THEN Fail(st, ReadDirError)
    ELSE LET st0 == [st EXCEPT !.isDevfilePresent = FALSE, !.isDockerfilePresent = FALSE]
             st1 == ListingLoop(st0, info, ctx, d.files)
             st2 == UnsetDockerfile(st1, ctx)
         IN  IF st1.err # NoError THEN st1
             ELSE IF ShouldAnalyze(st2.isDevfilePresent, st2.isDockerfilePresent)
                  THEN AnalyzePath(st2, ctx, d.env).st
                  ELSE st2

\* lines 374-377: the maps of a scan are made anew
NewScan == MkState(EmptyMap, EmptyMap, EmptyMap, EmptyMap, FALSE, FALSE, NoError)

\* lines 389-507: the loop over the listing of the root; only its
\* directories are contexts
RECURSIVE RootLoop(_, _, _, _, _)
RootLoop(st, info, srcCtx, root, i) ==
    IF i > Len(root) \/ st.err # NoError THEN st
    ELSE IF root[i].isDir
         THEN RootLoop(SearchContext(st, info, PathJoin(srcCtx, root[i].name), root[i]),
                       info, srcCtx, root, i + 1)
         ELSE RootLoop(st, info, srcCtx, root, i + 1)

\* slip: the loop over the root resumes where the previous scan stopped
searchResumed(info, srcCtx, root) ==
    LET st == RootLoop(NewScan, info, srcCtx, root, rootIdx + 1)
    IN  IF st.err # NoError THEN ReturnError(st.err)
        ELSE ReturnMaps(st.devfile, st.url, st.dockerfile, st.ports)

search(info, srcCtx, root) ==
    LET st == RootLoop(NewScan, info, srcCtx, root, 1)
    IN  IF st.err # NoError THEN ReturnError(st.err)
        ELSE ReturnMaps(st.devfile, st.url, st.dockerfile, st.ports)

\* the listings of at most k entries with names of rank i and above
RECURSIVE ListingsFrom(_, _)
ListingsFrom(i, k) ==
    IF k = 0 \/ i > Len(NameOrder) THEN {<<>>}
    ELSE {<<>>} \cup UNION {{<<f>> \o l : f \in EntriesAt(j), l \in ListingsFrom(j + 1, k - 1)} :
                               j \in i..Len(NameOrder)}

\* entries of the listing of the root
SubDir(files, env) ==
    [name |-> ContextName(1), isDir |-> TRUE, readErr |-> FALSE, files |-> files, env |-> env]

RootFile(n) ==
    [name |-> n, isDir |-> FALSE, readErr |-> FALSE, files |-> <<>>, env |-> BaseEnv]

\* what follows the sub-directory in the listing of the root
RootFiles == {<<>>, <<RootFile(Devfile)>>}

\* what the parser makes of the manifest found on disk, one-step scans
LocalParsesCtx == LocalParses \cup {Parsed(<<"httpd/Dockerfile">>)}

EnvsCtx == {[d EXCEPT !.localParse = l] : d \in DetectEnvs, l \in LocalParsesCtx}

\* scans made in one step of a root that holds one sub-directory
InitCtx ==
    /\ pc = "probe"
    /\ cdqInfo \in {[RepoURL |-> u, Revision |-> "main"] : u \in RepoURLs}
    /\ srcContext \in SrcContexts
    /\ \E files \in ListingsFrom(1, MaxFiles) : \E env \in EnvsCtx : \E more \in RootFiles :
          probe = <<SubDir(files, env)>> \o more
    /\ rootIdx = 0
    /\ context = ""
    /\ lastName = 0
    /\ isDevfilePresent = FALSE
    /\ isDockerfilePresent = FALSE
    /\ devfileMapFromRepo = EmptyMap
    /\ devfilesURLMapFromRepo = EmptyMap
    /\ dockerfileContextMapFromRepo = EmptyMap
    /\ componentPortsMapFromRepo = EmptyMap
    /\ ret = NotReturned
    /\ seen = NothingSeen
    /\ call = NoCall
    /\ application = NoObject
    /\ rec = Idle("none")
    /\ hist = NoHistory
    /\ queue = {}
    /\ components = {}
    /\ event = NoEvent

\* a call of search
Scan ==
    /\ pc = "probe"
    /\ pc' = "done"
    /\ rootIdx' = Len(probe)
    /\ context' = PathJoin(srcContext, ContextName(1))
    /\ ret' = search(cdqInfo, srcContext, probe)
    /\ devfileMapFromRepo' = ret'.devfile
    /\ devfilesURLMapFromRepo' = ret'.url
    /\ dockerfileContextMapFromRepo' = ret'.dockerfile
    /\ componentPortsMapFromRepo' = ret'.ports
    /\ UNCHANGED <<application, rec, hist, queue, components, event, probe, cdqInfo, srcContext, lastName,
                   isDevfilePresent, isDockerfilePresent, seen, call>>

\* a second call of search on the same root, with the same answers
Rescan ==
    /\ pc = "done"
    /\ probe # <<>>
    /\ pc' = "again"
    /\ ret' = search(cdqInfo, srcContext, probe)
    /\ devfileMapFromRepo' = ret'.devfile
    /\ devfilesURLMapFromRepo' = ret'.url
    /\ dockerfileContextMapFromRepo' = ret'.dockerfile
    /\ componentPortsMapFromRepo' = ret'.ports
    /\ UNCHANGED <<application, rec, hist, queue, components, event, probe, cdqInfo, srcContext, rootIdx, context,
                   lastName, isDevfilePresent, isDockerfilePresent, seen, call>>

NextCtx ==
    \/ Scan
    \/ Rescan

SpecCtx == InitCtx /\ [][NextCtx]_vars

(***************************************************************************)
(* ApplicationReconciler.Reconcile, lines 80-277, step by step for one     *)
(* Application.  A Reconcile may start whenever none is running; every     *)
(* call of the API server and of the source-hosting client may fail.       *)
(***************************************************************************)
searchVars ==
    <<pc, cdqInfo, srcContext, rootIdx, context, lastName, isDevfilePresent,
      isDockerfilePresent, devfileMapFromRepo, devfilesURLMapFromRepo,
      dockerfileContextMapFromRepo, componentPortsMapFromRepo, ret, seen, call, probe>>

InitialCounts == {NoAnnotation, BadAnnotation, Annotation(0), Annotation(3)}

\* the Application as the controller finds it first: new, with or without
\* the finalizer, or with a status that is no devfile
NewApplication(f, c, g, d) ==
    [exists |-> TRUE, deleting |-> FALSE, finalizer |-> f, finalizeCount |-> c,
     gitOpsURL |-> g, displayName |-> "app", description |-> "", devfile |-> d]

InitialApplications ==
    {NewApplication(f, c, g, NoDevfile) :
        f \in BOOLEAN, c \in InitialCounts, g \in {"", GivenRepo}}
    \cup {NewApplication(TRUE, NoAnnotation, GivenRepo, NotADevfile)}

\* the Application was created and its create event has put the request
\* into the work queue
InitReconcile ==
    /\ pc = "none"
    /\ cdqInfo = [RepoURL |-> "", Revision |-> ""]
    /\ srcContext = ""
    /\ rootIdx = 0
    /\ context = ""
    /\ lastName = 0
    /\ isDevfilePresent = FALSE
    /\ isDockerfilePresent = FALSE
    /\ devfileMapFromRepo = EmptyMap
    /\ devfilesURLMapFromRepo = EmptyMap
    /\ dockerfileContextMapFromRepo = EmptyMap
    /\ componentPortsMapFromRepo = EmptyMap
    /\ ret = NotReturned
    /\ seen = NothingSeen
    /\ call = NoCall
    /\ probe = <<>>
    /\ application \in InitialApplications
    /\ rec = Idle("none")
    /\ hist = NoHistory
    /\ queue = Requests("Application", "create")
    /\ components = {}
    /\ event = NoEvent

\* the outcomes of a call that may fail: the calls fail MaxFaults times at most
Outcomes(h) == IF h.faults < MaxFaults THEN BOOLEAN ELSE {TRUE}

Faulted(h, ok) == IF ok THEN h ELSE [h EXCEPT !.faults = @ + 1]

\* the invocation made the calls and the writes of the set what
Did(h, what) == [h EXCEPT !.did = @ \cup what]

\* the controller receives an event and its predicates decide on the request
Notify(type, kind) ==
    /\ queue' = queue \cup Requests(type, kind)
    /\ event' = [type |-> type, kind |-> kind]

Quiet == queue' = queue /\ event' = NoEvent

\* the event of an accepted update: the resource changed or is gone
NotifyUpdate == Notify("Application", IF application'.exists THEN "update" ELSE "delete")

\* a request is in the work queue, or Reconcile returned an error and the
\* request is queued again
Pending == AppName \in queue \/ rec.result = "error"

\* a user asks for the deletion of the Application
DeleteRequest ==
    /\ application.exists /\ ~application.deleting
    /\ application' = IF application.finalizer
                      THEN [application EXCEPT !.deleting = TRUE]
                      ELSE NoObject
    /\ NotifyUpdate
    /\ UNCHANGED <<rec, hist, components, searchVars>>

\* a user changes the display name or the description of the Application
EditSpec ==
    /\ application.exists
    /\ application.displayName = "app" /\ application.description = ""
    /\ \/ application' = [application EXCEPT !.displayName = "renamed"]
       \/ application' = [application EXCEPT !.description = "text"]
    /\ NotifyUpdate
    /\ UNCHANGED <<rec, hist, components, searchVars>>

\* a Component of the Application is created
CreateComponent ==
    /\ \E c \in ComponentNames \ components : components' = components \cup {c}
    /\ Notify("Component", "create")
    /\ UNCHANGED <<application, rec, hist, searchVars>>

\* a Component of the Application is deleted
DeleteComponent ==
    /\ \E c \in components : components' = components \ {c}
    /\ Notify("Component", "delete")
    /\ UNCHANGED <<application, rec, hist, searchVars>>

\* any other event of a watched resource: the first listing and the
\* periodic resynchronisation of the cache, a changed Component, a generic event
Deliver ==
    /\ \E type \in {"Application", "Component"}, kind \in EventKinds : Notify(type, kind)
    /\ UNCHANGED <<application, rec, hist, components, searchVars>>

\* lines 85-95: the controller takes the request from the work queue and
\* Reconcile reads the Application
Get ==
    /\ rec.pc = "idle"
    /\ Pending
    /\ \E ok \in Outcomes(hist) :
          /\ rec' = IF ~ok THEN Idle("error")
                    ELSE IF ~application.exists THEN Idle("ok")
                    ELSE At("client", application)
          /\ hist' = [Faulted(hist, ok) EXCEPT
                         !.fetched = IF ok THEN Fetched(application) ELSE Fetched(NoObject),
                         !.did = {}]
    /\ queue' = queue \ {AppName}
    /\ event' = NoEvent
    /\ UNCHANGED <<application, components, searchVars>>

\* lines 97-104: GetNewGitHubClient
GetNewGitHubClient ==
    /\ rec.pc = "client"
    /\ \E ok \in Outcomes(hist) :
          /\ rec' = IF ok THEN [rec EXCEPT !.pc = "check"] ELSE Idle("error")
          /\ hist' = Faulted(hist, ok)
    /\ Quiet
    /\ UNCHANGED <<application, components, searchVars>>

\* lines 108-115: is the Application under deletion, has it the finalizer
CheckDeletion ==
    /\ rec.pc = "check"
    /\ rec' = [rec EXCEPT !.pc = DeletionBranch(rec.obj)]
    /\ Quiet
    /\ UNCHANGED <<application, hist, components, searchVars>>

\* lines 111-112: attach the finalizer and return
AddFinalizer ==
    /\ rec.pc = "addFinalizer"
    /\ \E ok \in Outcomes(hist) :
          IF Accepted(application, rec.read, ok)
          THEN /\ application' = [application EXCEPT !.finalizer = TRUE]
               /\ rec' = Idle("ok")
               /\ hist' = Did(hist, {"AddFinalizer"})
               /\ NotifyUpdate
          ELSE /\ application' = application
               /\ rec' = Idle("error")
               /\ hist' = [Faulted(Did(hist, {"AddFinalizer"}), ok) EXCEPT
                              !.updateFailed = TRUE]
               /\ Quiet
    /\ UNCHANGED <<components, searchVars>>

\* lines 116-137: Finalize, and the finalize counter when it fails
Finalize ==
    /\ rec.pc = "finalize"
    /\ \/ /\ rec' = [rec EXCEPT !.pc = "remove"]
          /\ hist' = Did(hist, {"Finalize"})
          /\ Quiet
          /\ UNCHANGED application
       \/ /\ hist.finalizeFailures < MaxFinalizeFailures
          /\ LET r == FinalizeFailed(rec.obj)
                 h == [Did(hist, {"Finalize"}) EXCEPT !.finalizeFailures = @ + 1]
             IN  IF r.retry
                 THEN \E ok \in Outcomes(h) :
                         LET stored == Accepted(application, rec.read, ok)
                         IN  /\ application' = IF stored THEN Updated(r.obj)
                                               ELSE application
                             /\ rec' = [Idle("ok") EXCEPT !.obj = r.obj]
                             /\ hist' = [Faulted(h, ok) EXCEPT
                                            !.updateFailed = @ \/ ~stored]
                             /\ IF stored THEN NotifyUpdate ELSE Quiet
                 ELSE /\ application' = application
                      /\ rec' = [rec EXCEPT !.pc = "remove"]
                      /\ hist' = h
                      /\ Quiet
    /\ UNCHANGED <<components, searchVars>>

\* lines 139-145: remove the finalizer and update the Application; Reconcile
\* goes on with line 149 when the update was accepted
RemoveFinalizer ==
    /\ rec.pc = "remove"
    /\ LET obj == RemoveFinalizerFrom(rec.obj)
       IN  \E ok \in Outcomes(hist) :
              IF Accepted(application, rec.read, ok)
              THEN /\ application' = Updated(obj)
                   /\ rec' = [rec EXCEPT !.pc = "main", !.obj = obj,
                                         !.read = Updated(obj)]
                   /\ hist' = Did(hist, {"RemoveFinalizer"})
                   /\ NotifyUpdate
              ELSE /\ application' = application
                   /\ rec' = Idle("error")
                   /\ hist' = [Faulted(Did(hist, {"RemoveFinalizer"}), ok) EXCEPT
                                  !.updateFailed = TRUE]
                   /\ Quiet
    /\ UNCHANGED <<components, searchVars>>

\* lines 149-157 and 213: the reconcile loop starts with the creation of the
\* devfile when Status.Devfile is empty, with its update when it is not
ReconcileLoop ==
    /\ rec.pc = "main"
    /\ rec' = [rec EXCEPT !.pc = DevfileBranch(rec.obj),
                          !.gitOpsRepo = rec.obj.gitOpsURL]
    /\ Quiet
    /\ UNCHANGED <<application, hist, components, searchVars>>

\* r.SetCreateConditionAndUpdateCR and r.SetUpdateConditionAndUpdateCR with
\* the return that follows: the condition is set on obj, the status of obj
\* is stored (a refused update is not reported to Reconcile), Reconcile returns
SetConditionAndReturn(condition, obj, result, h) ==
    \E ok \in Outcomes(h) :
       /\ application' = StatusUpdate(application, rec.read, obj, ok)
       /\ rec' = Idle(result)
       /\ hist' = Faulted(Did(h, {condition, "status update"}), ok)
       /\ IF Accepted(application, rec.read, ok) THEN NotifyUpdate ELSE Quiet

\* lines 157-176: no repository was given, one is generated
GenerateNewRepository ==
    /\ rec.pc = "generate"
    /\ \E ok \in Outcomes(hist) :
          LET h == Faulted(Did(hist, {"GenerateNewRepository"}), ok)
          IN  IF ok
              THEN /\ rec' = [rec EXCEPT !.pc = "convert", !.gitOpsRepo = GeneratedRepo]
                   /\ hist' = h
                   /\ Quiet
                   /\ UNCHANGED application
              ELSE SetConditionAndReturn("create condition: error", rec.obj, "error", h)
    /\ UNCHANGED <<components, searchVars>>

\* lines 177-189: the Application is converted to a devfile
Convert ==
    /\ rec.pc = "convert"
    /\ \E ok \in Outcomes(hist) :
          LET h == Faulted(hist, ok)
          IN  IF ok
              THEN /\ rec' = [rec EXCEPT
                                 !.pc = "components",
                                 !.devfileData =
                                     ConvertApplicationToDevfile(rec.obj, rec.gitOpsRepo)]
                   /\ hist' = Did(h, {"ConvertApplicationToDevfile"})
                   /\ Quiet
                   /\ UNCHANGED application
              ELSE SetConditionAndReturn("create condition: error", rec.obj, "error", h)
    /\ UNCHANGED <<components, searchVars>>

\* lines 191-197: the components of the Application are added to the devfile
AddComponents ==
    /\ rec.pc = "components"
    /\ \E ok \in Outcomes(hist) :
          LET h == Faulted(hist, ok)
          IN  IF ok
              THEN /\ rec' = [rec EXCEPT
                                 !.pc = "marshal",
                                 !.devfileData.components =
                                     getAndAddComponentApplicationsToModel(@, components)]
                   /\ hist' = Did(h, {"getAndAddComponentApplicationsToModel"})
                   /\ Quiet
                   /\ UNCHANGED application
              ELSE SetConditionAndReturn("create condition: error", rec.obj, "error", h)
    /\ UNCHANGED <<components, searchVars>>

\* slip: no return after the error of yaml.Marshal
CreateDevfileNoReturn ==
    /\ rec.pc = "marshal"
    /\ \E ok \in Outcomes(hist) :
          LET h == Faulted(hist, ok)
          IN  IF ok
              THEN SetConditionAndReturn(
                       "create condition: ok",
                       [rec.obj EXCEPT !.devfile = Marshal(rec.devfileData)],
                       "ok", Did(h, {"Marshal", "Status.Devfile"}))
              ELSE SetConditionAndReturn(
                       "create condition: ok",
                       [rec.obj EXCEPT !.devfile = Marshal(NoData)],
                       "ok", Did(h, {"create condition: error", "Status.Devfile"}))
    /\ UNCHANGED <<components, searchVars>>

\* lines 199-212 and 275-276: the devfile is marshalled and written to
\* Status.Devfile
CreateDevfile ==
    /\ rec.pc = "marshal"
    /\ \E ok \in Outcomes(hist) :
          LET h == Faulted(hist, ok)
          IN  IF ok
              THEN SetConditionAndReturn(
                       "create condition: ok",
                       [rec.obj EXCEPT !.devfile = Marshal(rec.devfileData)],
                       "ok", Did(h, {"Marshal", "Status.Devfile"}))
              ELSE SetConditionAndReturn("create condition: error", rec.obj, "error", h)
    /\ UNCHANGED <<components, searchVars>>

\* lines 218-223: the devfile of Status.Devfile is parsed
Parse ==
    /\ rec.pc = "parse"
    /\ LET parsed == ParseDevfile(rec.obj.devfile)
       IN  IF parsed.err = NoError
           THEN /\ rec' = [rec EXCEPT !.pc = "aggregate", !.devfileData = parsed.data]
                /\ Quiet
                /\ UNCHANGED <<application, hist>>
           ELSE SetConditionAndReturn("update condition: error", rec.obj, "error", hist)
    /\ UNCHANGED <<components, searchVars>>

\* lines 225-238: the attributes and the projects are built again from the
\* components of the Application
AggregateComponents ==
    /\ rec.pc = "aggregate"
    /\ \E ok \in Outcomes(hist) :
          LET h == Faulted(hist, ok)
          IN  IF ok
              THEN /\ rec' = [rec EXCEPT
                                 !.pc = "compare",
                                 !.devWorkspacesSpec =
                                     getAndAddComponentApplicationsToModel({}, components)]
                   /\ hist' = Did(h, {"getAndAddComponentApplicationsToModel"})
                   /\ Quiet
                   /\ UNCHANGED application
              ELSE SetConditionAndReturn("update condition: error", rec.obj, "error", h)
    /\ UNCHANGED <<components, searchVars>>

\* lines 239-276: the devfile is brought up to date when it differs from the
\* Application and its components
UpdateDevfile ==
    /\ rec.pc = "compare"
    /\ IF updateRequired(rec.obj, rec.devfileData, rec.devWorkspacesSpec)
       THEN \E ok \in Outcomes(hist) :
               LET h == Faulted(hist, ok)
               IN  IF ok
                   THEN SetConditionAndReturn(
                            "update condition: ok",
                            [rec.obj EXCEPT !.devfile =
                                Marshal(UpdatedDevfile(rec.obj, rec.devfileData,
                                                       rec.devWorkspacesSpec))],
                            "ok", Did(h, {"Marshal", "Status.Devfile"}))
                   ELSE SetConditionAndReturn("update condition: error", rec.obj,
                                              "error", h)
       ELSE /\ rec' = Idle("ok")
            /\ Quiet
            /\ UNCHANGED <<application, hist>>
    /\ UNCHANGED <<components, searchVars>>

\* the steps of the controller and of Reconcile
Worker ==
    \/ Get
    \/ GetNewGitHubClient
    \/ CheckDeletion
    \/ AddFinalizer
    \/ Finalize
    \/ RemoveFinalizer
    \/ ReconcileLoop
    \/ GenerateNewRepository
    \/ Convert
    \/ AddComponents
    \/ CreateDevfile
    \/ Parse
    \/ AggregateComponents
    \/ UpdateDevfile

NextReconcile ==
    \/ DeleteRequest
    \/ EditSpec
    \/ CreateComponent
    \/ DeleteComponent
    \/ Worker

SpecReconcile == InitReconcile /\ [][NextReconcile]_vars

\* the controller runs Reconcile for every request of its work queue, and a
\* Reconcile that has started runs to its return
FairReconcile == SpecReconcile /\ WF_vars(Worker)

\* the controller of one new Application under every event of the watched
\* resources, those that no change of the model causes included
InitEvents ==
    /\ InitReconcile
    /\ application \in {NewApplication(f, NoAnnotation, "", NoDevfile) : f \in BOOLEAN}

NextEvents ==
    \/ Deliver
    \/ NextReconcile

SpecEvents == InitEvents /\ [][NextEvents]_vars

(***************************************************************************)
(* Vocabulary of the properties.                                           *)
(***************************************************************************)
\* search returned the four maps with a nil error
Succeeded == ret.returned /\ ~ret.isNil

\* the context at hand has been processed to its end and the scan goes on
ContextDone == context # "" /\ (pc = "root" \/ (pc = "done" /\ Succeeded))

\* the values the directory listing records for a build file found on disk
OnDiskBuildPaths ==
    {"Dockerfile", "dockerfile", ContainerfileName}
        \cup {PathJoin(d, n) : d \in BuildDirNames, n \in BuildFileNames}

\* a listing with its i-th entry removed
RemoveAt(files, i) == SubSeq(files, 1, i - 1) \o SubSeq(files, i + 1, Len(files))

IsIgnored(f) == ~f.isDir /\ f.name \in ManifestNames /\ f.v = "ignore"

\* the listings obtained from files by removing one ignore-sentinel manifest
WithoutOneIgnored(files) ==
    {RemoveAt(files, i) : i \in {j \in 1..Len(files) : IsIgnored(files[j])}}
    \cup UNION {{[files EXCEPT ![i].sub = RemoveAt(@, k)] :
                    k \in {j \in 1..Len(files[i].sub) : IsIgnored(files[i].sub[j])}} :
                i \in {j \in 1..Len(files) :
                         files[j].isDir /\ files[j].name = HiddenDevfileDir /\ ~files[j].readErr}}

(***************************************************************************)
(* C1: in the result of a successful scan no context has both a manifest   *)
(* record discovered on disk and a build-file record that holds the        *)
(* relative path of a build file found by the directory listing.           *)
(***************************************************************************)
C1_NoConflictingSources ==
    Succeeded =>
        \A c \in DOMAIN ret.devfile :
            ~(/\ ret.devfile[c].src = "disk"
              /\ c \in DOMAIN ret.dockerfile
              /\ ret.dockerfile[c] \in OnDiskBuildPaths)

(***************************************************************************)
(* C2: when a scan succeeds and the listing of the last context held both  *)
(* a valid manifest and a build file, the returned build-file map has no   *)
(* entry for that context.                                                 *)
(***************************************************************************)
C2_ManifestDropsBuildFile ==
    (pc = "done" /\ Succeeded /\ context # "" /\ seen.valid /\ seen.build)
        => context \notin DOMAIN ret.dockerfile

(***************************************************************************)
(* C3: search returns the four maps as they stand with a nil error, or an  *)
(* error with four nil maps; an invalid manifest read in a listing and a   *)
(* failure of the detector other than NoDevfileFound end the scan that     *)
(* way, whatever earlier contexts had recorded.                            *)
(***************************************************************************)
C3_MapsOrError ==
    /\ ret.returned =>
          IF ret.err = NoError
          THEN /\ ~ret.isNil
               /\ ret.devfile = devfileMapFromRepo
               /\ ret.url = devfilesURLMapFromRepo
               /\ ret.dockerfile = dockerfileContextMapFromRepo
               /\ ret.ports = componentPortsMapFromRepo
          ELSE /\ ret.isNil
               /\ ret.devfile = EmptyMap /\ ret.url = EmptyMap
               /\ ret.dockerfile = EmptyMap /\ ret.ports = EmptyMap
    /\ (seen.invalid \/ call.outcome = "error") =>
          ret.returned /\ ret.isNil /\ ret.err \notin {NoError, NoDevfileFound}

\* a later context fails after an earlier one had populated the maps
C3_Witness ==
    /\ ret.returned /\ ret.isNil /\ ret.err = InvalidDevfile
    /\ rootIdx = 2
    /\ DOMAIN devfileMapFromRepo # {}
    /\ DOMAIN dockerfileContextMapFromRepo # {}

(***************************************************************************)
(* C4: a call of AnalyzePath in which the detector ends with               *)
(* NoDevfileFound returns no error and leaves the four maps as they were:  *)
(* the context gets no record, the entries of the other contexts stay, the *)
(* loop over the root goes on and NoDevfileFound is never returned.        *)
(***************************************************************************)
C4_NoDevfileFoundSwallowed ==
    /\ [](ret.err # NoDevfileFound)
    /\ [][(pc = "analyze" /\ call'.outcome = NoDevfileFound) =>
            /\ pc' = "root"
            /\ ret' = ret
            /\ devfileMapFromRepo' = devfileMapFromRepo
            /\ devfilesURLMapFromRepo' = devfilesURLMapFromRepo
            /\ dockerfileContextMapFromRepo' = dockerfileContextMapFromRepo
            /\ componentPortsMapFromRepo' = componentPortsMapFromRepo
            /\ context \notin DOMAIN componentPortsMapFromRepo
            /\ context \notin DOMAIN dockerfileContextMapFromRepo]_vars

\* the second context ends with NoDevfileFound, the first one keeps its records
C4_Witness ==
    /\ pc = "done" /\ Succeeded
    /\ rootIdx = 2
    /\ call.outcome = NoDevfileFound
    /\ context \notin DOMAIN ret.devfile
    /\ DOMAIN ret.devfile # {}
    /\ DOMAIN ret.ports # {}

(***************************************************************************)
(* C5: the result of scanning a context whose listing holds an             *)
(* ignore-sentinel manifest equals the result of scanning the same listing *)
(* with that manifest removed (both scans succeeding).                     *)
(***************************************************************************)
C5_IgnoredAsAbsent ==
    (pc = "done" /\ probe # <<>> /\ Succeeded) =>
        \A files \in WithoutOneIgnored(probe[1].files) :
            LET other == search(cdqInfo, srcContext, [probe EXCEPT ![1].files = files])
            IN  other.err = NoError => other = ret

(***************************************************************************)
(* C6: when the listing of a context held an ignore-sentinel manifest,     *)
(* AnalyzePath has been called for the context by the time the context is  *)
(* done.                                                                   *)
(***************************************************************************)
C6_IgnoredFallsThrough ==
    (ContextDone /\ seen.ignore) => call.invoked

(***************************************************************************)
(* C7: when the listing of a context held a build file and no manifest,    *)
(* the detector has been called for the context by the time the context is *)
(* done.                                                                   *)
(***************************************************************************)
C7_PortsHarvested ==
    (ContextDone /\ seen.build /\ ~seen.valid /\ ~seen.ignore) => call.detects > 0

(***************************************************************************)
(* C8 as stated: when the detector ran for a context, the port map has an  *)
(* entry for it exactly if the classifier reported a non-empty port list,  *)
(* and the entry is that list.                                             *)
(***************************************************************************)
C8_PortsIffReported ==
    (ContextDone /\ call.detects > 0) =>
        /\ (context \in DOMAIN componentPortsMapFromRepo) <=> PortsSet(call.reported)
        /\ context \in DOMAIN componentPortsMapFromRepo =>
              componentPortsMapFromRepo[context] = call.reported.list

(***************************************************************************)
(* C8 as amended: when the detector ran for a context and AnalyzePath      *)
(* returned no error, the port map has an entry for it exactly if the      *)
(* detector found a catalog match and the classifier reported a non-empty  *)
(* port list for the first component, and the entry is that list.          *)
(***************************************************************************)
C8_PortsIffMatchAndReported ==
    (ContextDone /\ call.detects > 0) =>
        /\ (context \in DOMAIN componentPortsMapFromRepo)
              <=> (call.outcome = "match" /\ PortsSet(call.reported))
        /\ context \in DOMAIN componentPortsMapFromRepo =>
              componentPortsMapFromRepo[context] = call.reported.list

\* ports were reported, no catalog type matched, no port entry
C8_Witness ==
    /\ ContextDone
    /\ call.detects > 0
    /\ call.outcome = NoDevfileFound
    /\ PortsSet(call.reported)
    /\ context \notin DOMAIN componentPortsMapFromRepo

(***************************************************************************)
(* C9: no key of the port map, during the scan and in its result, maps to  *)
(* an empty port list; a context whose detected port list is empty has no  *)
(* entry.                                                                  *)
(***************************************************************************)
C9_NoEmptyPortList ==
    /\ \A c \in DOMAIN componentPortsMapFromRepo : Len(componentPortsMapFromRepo[c]) > 0
    /\ \A c \in DOMAIN ret.ports : Len(ret.ports[c]) > 0
    /\ (ContextDone /\ call.detects > 0 /\ ~PortsSet(call.reported)) =>
          context \notin DOMAIN componentPortsMapFromRepo

\* a catalog match with an empty port list: records written, no port entry
C9_Witness ==
    /\ ContextDone
    /\ call.outcome = "match"
    /\ call.reported = Ports(<<>>)
    /\ context \in DOMAIN dockerfileContextMapFromRepo
    /\ context \notin DOMAIN componentPortsMapFromRepo

(***************************************************************************)
(* C10: once the bytes of a manifest found on disk are recorded for a      *)
(* context, no step of the scan replaces them, or the URL recorded with    *)
(* them, by the output of the catalog.                                     *)
(***************************************************************************)
C10_DiskManifestKept ==
    [][\A c \in DOMAIN devfileMapFromRepo :
          (devfileMapFromRepo[c].src = "disk" /\ c \in DOMAIN devfileMapFromRepo') =>
              /\ devfileMapFromRepo'[c].src # "catalog"
              /\ (pc = "analyze" => devfilesURLMapFromRepo'[c] = devfilesURLMapFromRepo[c])]_vars

(***************************************************************************)
(* Vocabulary of the properties on the output of the catalog.              *)
(***************************************************************************)
SampleRepoURLs == {"https://github.com/samples/nodejs-basic"}

\* the URLs recorded for a manifest of the catalog
CatalogManifestURLs == {UpdateGitLink(r, "", Devfile).link : r \in SampleRepoURLs}

\* the locations recorded for a build file of a sample of the catalog
CatalogBuildFileURLs ==
    {UpdateGitLink(r, "", x).link : r \in SampleRepoURLs, x \in {"", "Dockerfile"}}

\* a reference with a network scheme
IsAbsoluteURL(uri) == uri \in {"http://example.com/Dockerfile"}

\* m and n agree on every key but k
SameButAt(m, n, k) ==
    \A c \in ((DOMAIN m) \cup (DOMAIN n)) \ {k} :
        c \in DOMAIN m /\ c \in DOMAIN n /\ m[c] = n[c]

\* the paths of the valid manifests search may record for context c with
\* the listing files: in the listing itself or in its .devfile directory
ManifestPathsOf(c, files) ==
    {PathJoin(c, files[i].name) :
        i \in {j \in 1..Len(files) :
                  /\ ~files[j].isDir
                  /\ ToLower(files[j].name) \in ManifestNames
                  /\ files[j].v = "valid"}}
    \cup UNION {{PathJoin(c, PathJoin(HiddenDevfileDir, files[i].sub[k].name)) :
                    k \in {j \in 1..Len(files[i].sub) :
                              /\ ~files[i].sub[j].isDir
                              /\ ToLower(files[i].sub[j].name) \in ManifestNames
                              /\ files[i].sub[j].v = "valid"}} :
                i \in {j \in 1..Len(files) :
                          files[j].isDir /\ files[j].name = HiddenDevfileDir}}

\* the context keys of the directories of the root
ContextsOf(root) ==
    {PathJoin(srcContext, root[i].name) : i \in {j \in 1..Len(root) : root[j].isDir}}

(***************************************************************************)
(* C11: when a context is done, it has a manifest of the catalog only if   *)
(* its listing held neither a valid manifest nor a build file, and a       *)
(* build-file location of the catalog only if its manifest declared no     *)
(* build file and no build file of the listing was retained.               *)
(***************************************************************************)
C11_CatalogOnlyWithoutExplicit ==
    ContextDone =>
        /\ (context \in DOMAIN devfileMapFromRepo
              /\ devfileMapFromRepo[context].src = "catalog")
              => (~seen.valid /\ ~seen.build)
        /\ (context \in DOMAIN dockerfileContextMapFromRepo
              /\ dockerfileContextMapFromRepo[context] \in CatalogBuildFileURLs)
              => (~call.declared /\ (seen.build => seen.valid))

(***************************************************************************)
(* C12: when the listing of a context holds a valid manifest and the       *)
(* manifest declares a build file, a successful scan records the reference *)
(* as the build-file location of the context if it is an absolute URL and  *)
(* records no build-file location if it is relative; the detector is not   *)
(* called, so the context gets no port entry.                              *)
(***************************************************************************)
C12_DeclaredBuildFile ==
    (/\ pc = "done" /\ Succeeded /\ probe # <<>>
     /\ \E i \in 1..Len(probe[1].files) : "valid" \in ManifestsOf(probe[1].files[i])
     /\ Declares(probe[1].env.localParse))
    => LET uri == EmbeddedRef(probe[1].env.localParse)
       IN  /\ IF IsAbsoluteURL(uri)
              THEN /\ context \in DOMAIN ret.dockerfile
                   /\ ret.dockerfile[context] = uri
              ELSE context \notin DOMAIN ret.dockerfile
           /\ context \notin DOMAIN ret.ports

(***************************************************************************)
(* C13 as stated: in a successful result, a context whose manifest URL is  *)
(* the reference of the catalog has no entry, or an empty one, in the map  *)
(* of manifest bytes.                                                      *)
(***************************************************************************)
C13_CatalogManifestUrlOnly ==
    Succeeded =>
        \A c \in DOMAIN ret.url :
            ret.url[c] \in CatalogManifestURLs =>
                (c \notin DOMAIN ret.devfile \/ BytesLen(ret.devfile[c]) = 0)

(***************************************************************************)
(* C13 as amended: a context whose manifest is synthesized from the        *)
(* catalog carries both the URL of the catalog manifest and its marshalled *)
(* bytes, which are not empty.                                             *)
(***************************************************************************)
C13_CatalogManifestBytesAndUrl ==
    /\ Succeeded =>
          \A c \in DOMAIN ret.url :
              ret.url[c] \in CatalogManifestURLs =>
                  /\ c \in DOMAIN ret.devfile
                  /\ ret.devfile[c].src = "catalog"
                  /\ BytesLen(ret.devfile[c]) > 0
    /\ (ContextDone /\ call.outcome = "match" /\ ~isDevfilePresent) =>
          /\ context \in DOMAIN devfilesURLMapFromRepo
          /\ context \in DOMAIN devfileMapFromRepo
          /\ devfilesURLMapFromRepo[context] = UpdateGitLink(call.repo, "", Devfile).link
          /\ devfileMapFromRepo[context].src = "catalog"
          /\ BytesLen(devfileMapFromRepo[context]) > 0

\* a successful result with a manifest of the catalog: URL and bytes
C13_Witness ==
    /\ pc = "done" /\ Succeeded
    /\ \E c \in DOMAIN ret.url :
          /\ ret.url[c] \in CatalogManifestURLs
          /\ c \in DOMAIN ret.devfile
          /\ ret.devfile[c].src = "catalog"

C15_ManifestsOnlyFromContext ==
    (pc = "done" /\ Succeeded /\ probe # <<>>) =>
        /\ (DOMAIN ret.devfile) \cup (DOMAIN ret.url) \cup (DOMAIN ret.dockerfile)
              \cup (DOMAIN ret.ports) \subseteq ContextsOf(probe)
        /\ \A c \in DOMAIN ret.devfile :
              ret.devfile[c].src = "disk" =>
                  \E i \in 1..Len(probe) :
                      /\ probe[i].isDir
                      /\ c = PathJoin(srcContext, probe[i].name)
                      /\ ret.devfile[c].id \in ManifestPathsOf(c, probe[i].files)

\* manifests in the root and below another directory of the context only
C15_Witness ==
    /\ pc = "done" /\ Succeeded
    /\ Len(probe) = 2 /\ ~probe[2].isDir /\ probe[2].name \in ManifestNames
    /\ \E i \in 1..Len(probe[1].files) : HoldsManifestElsewhere(probe[1].files[i])
    /\ \A i \in 1..Len(probe[1].files) : ManifestsOf(probe[1].files[i]) = {}
    /\ \A c \in DOMAIN ret.devfile : ret.devfile[c].src # "disk"

C17_OnlyOwnKey ==
    [][/\ SameButAt(devfileMapFromRepo, devfileMapFromRepo', context)
       /\ SameButAt(devfilesURLMapFromRepo, devfilesURLMapFromRepo', context)
       /\ SameButAt(dockerfileContextMapFromRepo, dockerfileContextMapFromRepo', context)
       /\ SameButAt(componentPortsMapFromRepo, componentPortsMapFromRepo', context)]_vars

\* the second context lost its build-file entry, the first one kept its own
C17_Witness ==
    /\ ContextDone
    /\ rootIdx >= 2
    /\ seen.valid /\ seen.build
    /\ context \notin DOMAIN dockerfileContextMapFromRepo
    /\ DOMAIN dockerfileContextMapFromRepo # {}
    /\ DOMAIN componentPortsMapFromRepo # {}

(***************************************************************************)
(* C18: when the detector found a catalog match for a context and the scan *)
(* goes on, the build-file entry of the context is the link made of the    *)
(* repository of the sample and the reference the catalog manifest embeds, *)
(* the empty reference when it embeds none.                                *)
(***************************************************************************)
C18_CatalogBuildFileLink ==
    (ContextDone /\ call.outcome = "match") =>
        /\ context \in DOMAIN dockerfileContextMapFromRepo
        /\ dockerfileContextMapFromRepo[context] = UpdateGitLink(call.repo, "", call.ref).link

\* a catalog manifest that embeds no reference: the entry is still written
C18_Witness ==
    /\ ContextDone
    /\ call.outcome = "match"
    /\ call.ref = ""
    /\ context \in DOMAIN dockerfileContextMapFromRepo

(***************************************************************************)
(* C19: the map of manifest bytes and the map of manifest URLs have the    *)
(* same keys in every state of the scan and in every successful result.    *)
(***************************************************************************)
C19_SameKeys ==
    /\ DOMAIN devfileMapFromRepo = DOMAIN devfilesURLMapFromRepo
    /\ Succeeded => DOMAIN ret.devfile = DOMAIN ret.url

\* a result with a manifest found on disk and a manifest of the catalog
C19_Witness ==
    /\ pc = "done" /\ Succeeded
    /\ \E c \in DOMAIN ret.devfile : ret.devfile[c].src = "disk"
    /\ \E c \in DOMAIN ret.devfile : ret.devfile[c].src = "catalog"

(***************************************************************************)
(* Vocabulary of the properties of Reconcile.                              *)
(***************************************************************************)
\* this step is a call of Finalize that failed
FinalizeFails == hist'.finalizeFailures = hist.finalizeFailures + 1

\* the finalize counter of the object at hand can be read and is below 5
CounterBelow5 ==
    rec.obj.finalizeCount.kind # "garbage" /\ rec.obj.finalizeCount.n < 5

(***************************************************************************)
(* C20 as stated: a failed Finalize with a readable counter below 5 adds   *)
(* one to the counter of the Application, keeps the finalizer and makes    *)
(* Reconcile return no error; with the counter at 5 or unreadable the same *)
(* Reconcile removes the finalizer; Finalize fails at most 6 times.        *)
(***************************************************************************)
C20_AtMostSixFailures ==
    /\ [][FinalizeFails =>
            IF CounterBelow5
            THEN /\ application'.finalizeCount = Annotation(rec.obj.finalizeCount.n + 1)
                 /\ application'.finalizer
                 /\ rec'.pc = "idle" /\ rec'.result = "ok"
            ELSE rec'.pc = "remove"]_vars
    /\ [][(rec.pc = "remove" /\ rec'.pc # "remove") => ~application'.finalizer]_vars
    /\ [](hist.finalizeFailures <= 6)

(***************************************************************************)
(* C20 as amended: a failed Finalize with a readable counter below 5 adds  *)
(* one to the counter of the object at hand and tries to store it (the     *)
(* stored counter is that or unchanged), keeps the finalizer and makes     *)
(* Reconcile return no error; with the counter at 5 or unreadable the same *)
(* Reconcile goes on to remove the finalizer, which is removed if the      *)
(* update succeeds and kept, with an error returned, if it fails; Finalize *)
(* fails at most 6 times as long as no update failed.                      *)
(***************************************************************************)
C20_AtMostSixFailuresIfUpdatesSucceed ==
    /\ [][FinalizeFails =>
            IF CounterBelow5
            THEN /\ rec'.obj.finalizeCount = Annotation(rec.obj.finalizeCount.n + 1)
                 /\ application'.finalizeCount \in
                       {application.finalizeCount, rec'.obj.finalizeCount}
                 /\ application'.finalizer /\ rec'.obj.finalizer
                 /\ rec'.pc = "idle" /\ rec'.result = "ok"
            ELSE rec'.pc = "remove" /\ application' = application]_vars
    /\ [][(rec.pc = "remove" /\ rec'.pc # "remove") =>
            \/ ~application'.finalizer /\ rec'.pc = "main"
            \/ /\ application' = application
               /\ rec'.pc = "idle" /\ rec'.result = "error"
               /\ hist'.updateFailed]_vars
    /\ [](~hist.updateFailed => hist.finalizeFailures <= 6)

\* Finalize failed six times, every update succeeded, the finalizer is gone
C20_Witness ==
    /\ hist.finalizeFailures = 6
    /\ ~hist.updateFailed
    /\ ~application.finalizer
    /\ rec.pc = "main"

(***************************************************************************)
(* C21: an Application under deletion that carries the finalizer loses the *)
(* finalizer eventually, whatever Finalize returns, when the controller    *)
(* runs Reconcile for every request and every accepted update of the       *)
(* Application puts a request for it into the work queue.                  *)
(***************************************************************************)
C21_FinalizerEventuallyRemoved ==
    (application.deleting /\ application.finalizer) ~> ~application.finalizer

\* the conditions Reconcile may set
Conditions ==
    {"create condition: ok", "create condition: error",
     "update condition: ok", "update condition: error"}

\* the Reconcile at hand, or the last one, read an Application under deletion
OfDeletion == hist.fetched.exists /\ hist.fetched.deleting

(***************************************************************************)
(* C22: a Reconcile of an Application whose deletion timestamp is set only *)
(* cleans up: it does not call GenerateNewRepository, does not write       *)
(* Status.Devfile and sets no create or update condition.                  *)
(***************************************************************************)
C22_DeletionOnlyCleansUp ==
    OfDeletion =>
        hist.did \cap ({"GenerateNewRepository", "Status.Devfile"} \cup Conditions) = {}

\* the Reconcile at hand, or the last one, read a live Application that
\* lacked the finalizer
OfNewcomer ==
    hist.fetched.exists /\ ~hist.fetched.deleting /\ ~hist.fetched.finalizer

(***************************************************************************)
(* C23: a Reconcile of an Application that is not under deletion and lacks *)
(* the finalizer only adds the finalizer and returns; it generates no      *)
(* repository and does not write Status.Devfile, so that a Reconcile which *)
(* generates the devfile of a live Application read it with the finalizer. *)
(***************************************************************************)
C23_NewcomerOnlyGetsFinalizer ==
    /\ [](OfNewcomer =>
            /\ rec.pc \in {"client", "check", "addFinalizer", "idle"}
            /\ hist.did \subseteq {"AddFinalizer"})
    /\ [][(rec.pc = "addFinalizer" /\ rec' # rec) =>
            /\ rec'.pc = "idle"
            /\ application' \in {application, [application EXCEPT !.finalizer = TRUE]}]_vars
    /\ []((hist.fetched.exists /\ ~hist.fetched.deleting
             /\ hist.did \cap {"GenerateNewRepository", "Status.Devfile"} # {})
           => hist.fetched.finalizer)

\* the finalizer was added, nothing else was done, and the request of the
\* later Reconcile is in the work queue
C23_Witness ==
    /\ OfNewcomer
    /\ rec.pc = "idle" /\ rec.result = "ok"
    /\ hist.did = {"AddFinalizer"}
    /\ application.finalizer /\ application.devfile = NoDevfile
    /\ AppName \in queue

\* the steps of the creation path
CreationSteps ==
    {"ConvertApplicationToDevfile", "getAndAddComponentApplicationsToModel", "Marshal"}

\* this step is a step of the creation path that failed
CreationStepFails ==
    /\ rec' # rec
    /\ \/ rec.pc = "generate" /\ rec'.pc # "convert"
       \/ rec.pc = "convert" /\ rec'.pc # "components"
       \/ rec.pc = "components" /\ rec'.pc # "marshal"
       \/ rec.pc = "marshal" /\ "Marshal" \notin hist'.did

(***************************************************************************)
(* C24: in the creation path Status.Devfile becomes non-empty only in a    *)
(* Reconcile in which the generation of the repository (when none was      *)
(* given), the conversion, the aggregation of the components and the       *)
(* marshalling succeeded; when one of them fails Reconcile returns the     *)
(* error, sets the create condition with the error and leaves              *)
(* Status.Devfile empty, and the request is queued again.                  *)
(***************************************************************************)
C24_DevfileOnlyAfterAllSteps ==
    /\ [][(rec.pc \in {"generate", "convert", "components", "marshal"}
            /\ (application'.devfile.kind # "empty" \/ "Status.Devfile" \in hist'.did)) =>
            /\ rec.pc = "marshal"
            /\ CreationSteps \subseteq hist'.did
            /\ rec.obj.gitOpsURL = "" => "GenerateNewRepository" \in hist'.did
            /\ "create condition: error" \notin hist'.did
            /\ "create condition: ok" \in hist'.did
            /\ application'.devfile \in {application.devfile, Marshal(rec.devfileData)}
            /\ rec'.pc = "idle" /\ rec'.result = "ok"]_vars
    /\ [][CreationStepFails =>
            /\ rec'.pc = "idle" /\ rec'.result = "error"
            /\ "create condition: error" \in hist'.did
            /\ "Status.Devfile" \notin hist'.did
            /\ application'.devfile.kind = "empty"
            /\ Pending']_vars

\* the aggregation of the components failed after a repository was
\* generated: the create condition holds the error, Status.Devfile is
\* empty and Reconcile is to run again
C24_Witness ==
    /\ rec.pc = "idle" /\ rec.result = "error"
    /\ hist.did \cap CreationSteps = {"ConvertApplicationToDevfile"}
    /\ {"GenerateNewRepository", "create condition: error"} \subseteq hist.did
    /\ application.exists /\ ~application.deleting
    /\ application.devfile = NoDevfile

\* this step is a step of the update path
UpdateStep == rec.pc \in {"parse", "aggregate", "compare"} /\ rec' # rec

\* the display name, the description or the components of the Application
\* differ from those of the devfile in Status.Devfile; the components are
\* those Reconcile has listed, or those there are when it has not yet
StoredDevfileDiffers ==
    LET stored == rec.obj.devfile
        owned == IF rec.pc = "compare" THEN rec.devWorkspacesSpec ELSE components
    IN  \/ stored.kind # "devfile"
        \/ stored.data.name # rec.obj.displayName
        \/ stored.data.description # rec.obj.description
        \/ stored.data.components # owned

\* the same of the devfile that Reconcile has parsed and the components it
\* has listed
ParsedDevfileDiffers ==
    \/ rec.devfileData.name # rec.obj.displayName
    \/ rec.devfileData.description # rec.obj.description
    \/ rec.devfileData.components # rec.devWorkspacesSpec

(***************************************************************************)
(* C25 as stated: in the update path Reconcile rewrites Status.Devfile and *)
(* sets the update condition only if the display name, the description or  *)
(* the attributes and projects of the components differ from the stored    *)
(* devfile; a Reconcile of an unchanged Application leaves Status.Devfile  *)
(* as it is and makes no status update.                                    *)
(***************************************************************************)
C25_UpdateOnlyOnDifference ==
    [][(UpdateStep /\ ~StoredDevfileDiffers) =>
          /\ hist'.did \cap ({"Status.Devfile", "status update"} \cup Conditions) = {}
          /\ application'.devfile = application.devfile]_vars

(***************************************************************************)
(* C25 as amended: in the update path Reconcile rewrites Status.Devfile,   *)
(* with the update condition set without error, only if the display name,  *)
(* the description or the attributes and projects of the components differ *)
(* from the stored devfile; it sets the update condition with the error,   *)
(* stores the status and returns the error, Status.Devfile as it was, when *)
(* the parsing of the stored devfile, the listing of the components or the *)
(* marshalling fails; when none fails, a Reconcile of an unchanged         *)
(* Application leaves Status.Devfile as it is and makes no status update.  *)
(***************************************************************************)
C25_UpdateOnDifferenceOrError ==
    [][UpdateStep =>
          /\ "Status.Devfile" \in hist'.did =>
                /\ rec.pc = "compare" /\ ParsedDevfileDiffers
                /\ "update condition: ok" \in hist'.did
                /\ "update condition: error" \notin hist'.did
                /\ rec'.pc = "idle" /\ rec'.result = "ok"
          /\ application'.devfile # application.devfile =>
                /\ "Status.Devfile" \in hist'.did
                /\ application'.devfile =
                      Marshal([rec.devfileData EXCEPT
                                  !.name = rec.obj.displayName,
                                  !.description = rec.obj.description,
                                  !.components = rec.devWorkspacesSpec])
          /\ "update condition: error" \in hist'.did =>
                /\ "Status.Devfile" \notin hist'.did
                /\ application'.devfile = application.devfile
                /\ rec'.pc = "idle" /\ rec'.result = "error"
                /\ \/ rec.pc = "parse" /\ rec.obj.devfile.kind # "devfile"
                   \/ rec.pc = "aggregate"
                   \/ rec.pc = "compare" /\ ParsedDevfileDiffers
          /\ "status update" \in hist'.did =>
                hist'.did \cap {"update condition: ok", "update condition: error"} # {}
          /\ (rec.pc = "compare" /\ ~ParsedDevfileDiffers) =>
                /\ rec'.pc = "idle" /\ rec'.result = "ok"
                /\ hist'.did = hist.did /\ application' = application
          /\ hist'.did \cap {"create condition: ok", "create condition: error"} = {}]_vars

\* an Application with a Component was reconciled with nothing to update:
\* no condition, no status update
C25_Witness ==
    /\ rec.pc = "idle" /\ rec.result = "ok"
    /\ hist.fetched.exists /\ ~hist.fetched.deleting
    /\ hist.did = {"getAndAddComponentApplicationsToModel"}
    /\ application.devfile.kind = "devfile"
    /\ application.devfile.data.components = components /\ components # {}
    /\ application.devfile.data.name = application.displayName

\* this step brings the controller an event of the kind and the type
Event(type, kind) == event' = [type |-> type, kind |-> kind]

\* the event of this step puts the request of the Application into the work
\* queue, or leaves the work queue as it is
Enqueued == AppName \in queue'

NotEnqueued == queue' = queue

(***************************************************************************)
(* C26: the create and the update events of the Application put its        *)
(* request into the work queue and its delete events do not; the create    *)
(* and the delete events of a Component put the request of its Application *)
(* into the work queue, its update and generic events do not.              *)
(***************************************************************************)
C26_EventsEnqueue ==
    [][/\ Event("Application", "create") => Enqueued
       /\ Event("Application", "update") => Enqueued
       /\ Event("Application", "delete") => NotEnqueued
       /\ Event("Component", "create") => Enqueued
       /\ Event("Component", "delete") => Enqueued
       /\ Event("Component", "update") => NotEnqueued
       /\ Event("Component", "generic") => NotEnqueued]_vars

====
